---- MODULE Spec2Model ----
(***************************************************************************)
(* Model of the gunlog access-log analyzers (gunlog_traffic.py,            *)
(* gunlog_content.py, gunlog_seo.py): one scan of one access log by one    *)
(* analyzer.  A behaviour picks the analyzer, then reads the log line by   *)
(* line (one action per execution of the loop body) and finally runs the   *)
(* code that follows the loop.                                             *)
(*                                                                         *)
(* Text is kept as TLA+ strings in the state; the functions that look      *)
(* inside a string (split, splitext, lower, substring search, int) work on *)
(* its sequence of characters, given by the table Chars.                   *)
(***************************************************************************)
EXTENDS Integers, Sequences, FiniteSets, TLC

\* BEGIN STRING TABLE
Chars ==
     "8.8.8.8" :> <<"8", ".", "8", ".", "8", ".", "8">> @@
     "1.1.1.1" :> <<"1", ".", "1", ".", "1", ".", "1">> @@
     "10.0.0.1" :> <<"1", "0", ".", "0", ".", "0", ".", "1">> @@
     "10/Oct/2023:13:00:00 +0200" :> <<"1", "0", "/", "O", "c", "t", "/", "2", "0", "2", "3", ":", "1", "3", ":", "0", "0", ":", "0", "0", " ", "+", "0", "2", "0", "0">> @@
     "10/Oct/2023:13:05:00 +0200" :> <<"1", "0", "/", "O", "c", "t", "/", "2", "0", "2", "3", ":", "1", "3", ":", "0", "5", ":", "0", "0", " ", "+", "0", "2", "0", "0">> @@
     "10/Oct/2023:13:35:00 +0200" :> <<"1", "0", "/", "O", "c", "t", "/", "2", "0", "2", "3", ":", "1", "3", ":", "3", "5", ":", "0", "0", " ", "+", "0", "2", "0", "0">> @@
     "10/Oct/2023:13:40:00 +0200" :> <<"1", "0", "/", "O", "c", "t", "/", "2", "0", "2", "3", ":", "1", "3", ":", "4", "0", ":", "0", "0", " ", "+", "0", "2", "0", "0">> @@
     "10/Oct/2023:13:50:00 +0200" :> <<"1", "0", "/", "O", "c", "t", "/", "2", "0", "2", "3", ":", "1", "3", ":", "5", "0", ":", "0", "0", " ", "+", "0", "2", "0", "0">> @@
     "-" :> <<"-">> @@
     "GET /a HTTP/1.1" :> <<"G", "E", "T", " ", "/", "a", " ", "H", "T", "T", "P", "/", "1", ".", "1">> @@
     "GET /b HTTP/1.1" :> <<"G", "E", "T", " ", "/", "b", " ", "H", "T", "T", "P", "/", "1", ".", "1">> @@
     "GET /s.css HTTP/1.1" :> <<"G", "E", "T", " ", "/", "s", ".", "c", "s", "s", " ", "H", "T", "T", "P", "/", "1", ".", "1">> @@
     "GET" :> <<"G", "E", "T">> @@
     "POST" :> <<"P", "O", "S", "T">> @@
     "HEAD" :> <<"H", "E", "A", "D">> @@
     "/a" :> <<"/", "a">> @@
     "/b" :> <<"/", "b">> @@
     "/s.css" :> <<"/", "s", ".", "c", "s", "s">> @@
     "HTTP/1.1" :> <<"H", "T", "T", "P", "/", "1", ".", "1">> @@
     "UNKNOWN" :> <<"U", "N", "K", "N", "O", "W", "N">> @@
     "" :> <<>> @@
     "Mozilla/5.0 (Windows NT 10.0; Win64; x64)" :> <<"M", "o", "z", "i", "l", "l", "a", "/", "5", ".", "0", " ", "(", "W", "i", "n", "d", "o", "w", "s", " ", "N", "T", " ", "1", "0", ".", "0", ";", " ", "W", "i", "n", "6", "4", ";", " ", "x", "6", "4", ")">> @@
     "Mozilla/5.0 (compatible; Googlebot/2.1)" :> <<"M", "o", "z", "i", "l", "l", "a", "/", "5", ".", "0", " ", "(", "c", "o", "m", "p", "a", "t", "i", "b", "l", "e", ";", " ", "G", "o", "o", "g", "l", "e", "b", "o", "t", "/", "2", ".", "1", ")">> @@
     "Opera/9.80" :> <<"O", "p", "e", "r", "a", "/", "9", ".", "8", "0">> @@
     "Jan" :> <<"J", "a", "n">> @@
     "Feb" :> <<"F", "e", "b">> @@
     "Mar" :> <<"M", "a", "r">> @@
     "Apr" :> <<"A", "p", "r">> @@
     "May" :> <<"M", "a", "y">> @@
     "Jun" :> <<"J", "u", "n">> @@
     "Jul" :> <<"J", "u", "l">> @@
     "Aug" :> <<"A", "u", "g">> @@
     "Sep" :> <<"S", "e", "p">> @@
     "Oct" :> <<"O", "c", "t">> @@
     "Nov" :> <<"N", "o", "v">> @@
     "Dec" :> <<"D", "e", "c">> @@
     ".jpg" :> <<".", "j", "p", "g">> @@
     ".jpeg" :> <<".", "j", "p", "e", "g">> @@
     ".png" :> <<".", "p", "n", "g">> @@
     ".gif" :> <<".", "g", "i", "f">> @@
     ".ico" :> <<".", "i", "c", "o">> @@
     ".css" :> <<".", "c", "s", "s">> @@
     ".js" :> <<".", "j", "s">> @@
     ".svg" :> <<".", "s", "v", "g">> @@
     ".woff" :> <<".", "w", "o", "f", "f">> @@
     ".woff2" :> <<".", "w", "o", "f", "f", "2">> @@
     ".ttf" :> <<".", "t", "t", "f">> @@
     ".eot" :> <<".", "e", "o", "t">> @@
     "bot" :> <<"b", "o", "t">> @@
     "crawl" :> <<"c", "r", "a", "w", "l">> @@
     "spider" :> <<"s", "p", "i", "d", "e", "r">> @@
     "slurp" :> <<"s", "l", "u", "r", "p">> @@
     "baidu" :> <<"b", "a", "i", "d", "u">> @@
     "bing" :> <<"b", "i", "n", "g">> @@
     "google" :> <<"g", "o", "o", "g", "l", "e">> @@
     "yandex" :> <<"y", "a", "n", "d", "e", "x">> @@
     "facebook" :> <<"f", "a", "c", "e", "b", "o", "o", "k">> @@
     "archive" :> <<"a", "r", "c", "h", "i", "v", "e">> @@
     "lighthouse" :> <<"l", "i", "g", "h", "t", "h", "o", "u", "s", "e">> @@
     "pagespeed" :> <<"p", "a", "g", "e", "s", "p", "e", "e", "d">> @@
     "pingdom" :> <<"p", "i", "n", "g", "d", "o", "m">> @@
     "uptimerobot" :> <<"u", "p", "t", "i", "m", "e", "r", "o", "b", "o", "t">> @@
     "semrush" :> <<"s", "e", "m", "r", "u", "s", "h">> @@
     "ahrefs" :> <<"a", "h", "r", "e", "f", "s">> @@
     "moz" :> <<"m", "o", "z">> @@
     "screaming" :> <<"s", "c", "r", "e", "a", "m", "i", "n", "g">> @@
     "yahoo" :> <<"y", "a", "h", "o", "o">> @@
     "googlebot" :> <<"g", "o", "o", "g", "l", "e", "b", "o", "t">> @@
     "google-site-verification" :> <<"g", "o", "o", "g", "l", "e", "-", "s", "i", "t", "e", "-", "v", "e", "r", "i", "f", "i", "c", "a", "t", "i", "o", "n">> @@
     "google web preview" :> <<"g", "o", "o", "g", "l", "e", " ", "w", "e", "b", " ", "p", "r", "e", "v", "i", "e", "w">> @@
     "google favicon" :> <<"g", "o", "o", "g", "l", "e", " ", "f", "a", "v", "i", "c", "o", "n">> @@
     "bingbot" :> <<"b", "i", "n", "g", "b", "o", "t">> @@
     "msnbot" :> <<"m", "s", "n", "b", "o", "t">> @@
     "adidxbot" :> <<"a", "d", "i", "d", "x", "b", "o", "t">> @@
     "bingpreview" :> <<"b", "i", "n", "g", "p", "r", "e", "v", "i", "e", "w">> @@
     "yandexbot" :> <<"y", "a", "n", "d", "e", "x", "b", "o", "t">> @@
     "yandeximages" :> <<"y", "a", "n", "d", "e", "x", "i", "m", "a", "g", "e", "s">> @@
     "baiduspider" :> <<"b", "a", "i", "d", "u", "s", "p", "i", "d", "e", "r">> @@
     "duckduckbot" :> <<"d", "u", "c", "k", "d", "u", "c", "k", "b", "o", "t">> @@
     "duckduckgo" :> <<"d", "u", "c", "k", "d", "u", "c", "k", "g", "o">> @@
     "yahoo! slurp" :> <<"y", "a", "h", "o", "o", "!", " ", "s", "l", "u", "r", "p">> @@
     "yahooseeker" :> <<"y", "a", "h", "o", "o", "s", "e", "e", "k", "e", "r">> @@
     "ahrefsbot" :> <<"a", "h", "r", "e", "f", "s", "b", "o", "t">> @@
     "semrushbot" :> <<"s", "e", "m", "r", "u", "s", "h", "b", "o", "t">> @@
     "mj12bot" :> <<"m", "j", "1", "2", "b", "o", "t">> @@
     "dotbot" :> <<"d", "o", "t", "b", "o", "t">> @@
     "blexbot" :> <<"b", "l", "e", "x", "b", "o", "t">> @@
     "seznambot" :> <<"s", "e", "z", "n", "a", "m", "b", "o", "t">> @@
     "http://[bad" :> <<"h", "t", "t", "p", ":", "/", "/", "[", "b", "a", "d">> @@
     "http://x/" :> <<"h", "t", "t", "p", ":", "/", "/", "x", "/">> @@
     "garbage" :> <<"g", "a", "r", "b", "a", "g", "e">> @@
     " - " :> <<" ", "-", " ">> @@
     " [" :> <<" ", "[">> @@
     "] \"" :> <<"]", " ", "\"">> @@
     "\" \"" :> <<"\"", " ", "\"">> @@
     "8.8.8.8 - - " :> <<"8", ".", "8", ".", "8", ".", "8", " ", "-", " ", "-", " ">> @@
     "a.b" :> <<"a", ".", "b">> @@
     "a_b" :> <<"a", "_", "b">> @@
     "c" :> <<"c">> @@
     "/a.log" :> <<"/", "a", ".", "l", "o", "g">> @@
     "/c.log" :> <<"/", "c", ".", "l", "o", "g">> @@
     "/bad.log" :> <<"/", "b", "a", "d", ".", "l", "o", "g">> @@
     "/missing.log" :> <<"/", "m", "i", "s", "s", "i", "n", "g", ".", "l", "o", "g">> @@
     "0" :> <<"0">> @@
     "120" :> <<"1", "2", "0">> @@
     "10/Oct/2023:12:35:00 +0200" :> <<"1", "0", "/", "O", "c", "t", "/", "2", "0", "2", "3", ":", "1", "2", ":", "3", "5", ":", "0", "0", " ", "+", "0", "2", "0", "0">> @@
     "_" :> <<"_">> @@
     "/empty.log" :> <<"/", "e", "m", "p", "t", "y", ".", "l", "o", "g">> @@
     "/int.log" :> <<"/", "i", "n", "t", ".", "l", "o", "g">> @@
     "10/Oct/2023:13:00:59 +0200" :> <<"1", "0", "/", "O", "c", "t", "/", "2", "0", "2", "3", ":", "1", "3", ":", "0", "0", ":", "5", "9", " ", "+", "0", "2", "0", "0">> @@
     "10/Oct/2023:13:01:00 +0200" :> <<"1", "0", "/", "O", "c", "t", "/", "2", "0", "2", "3", ":", "1", "3", ":", "0", "1", ":", "0", "0", " ", "+", "0", "2", "0", "0">> @@
     "Mozilla/5.0 (Windows NT 10.0; Win64; x64) AppleWebKit/537.36 Chrome/120.0 Safari/537.36" :> <<"M", "o", "z", "i", "l", "l", "a", "/", "5", ".", "0", " ", "(", "W", "i", "n", "d", "o", "w", "s", " ", "N", "T", " ", "1", "0", ".", "0", ";", " ", "W", "i", "n", "6", "4", ";", " ", "x", "6", "4", ")", " ", "A", "p", "p", "l", "e", "W", "e", "b", "K", "i", "t", "/", "5", "3", "7", ".", "3", "6", " ", "C", "h", "r", "o", "m", "e", "/", "1", "2", "0", ".", "0", " ", "S", "a", "f", "a", "r", "i", "/", "5", "3", "7", ".", "3", "6">>
\* END STRING TABLE

----------------------------------------------------------------------------
(* Python string primitives on character sequences *)

Str(cs) == CHOOSE s \in DOMAIN Chars : Chars[s] = cs

Positions(cs, ch) == {i \in 1..Len(cs) : cs[i] = ch}

MinOf(S) == CHOOSE x \in S : \A y \in S : x <= y

MaxOf(S) == CHOOSE x \in S : \A y \in S : x >= y

RECURSIVE SplitMax(_, _, _)
\* str.split(sep, maxsplit) for a one-character sep; maxsplit = -1 is no limit
SplitMax(cs, sep, maxsplit) ==
    IF maxsplit = 0 \/ Positions(cs, sep) = {}
    THEN <<cs>>
    ELSE LET i == MinOf(Positions(cs, sep))
         IN  <<SubSeq(cs, 1, i - 1)>>
                 \o SplitMax(SubSeq(cs, i + 1, Len(cs)), sep, maxsplit - 1)

Split(cs, sep) == SplitMax(cs, sep, -1)

\* the characters str.isspace() holds of, among those of one byte below 0x80:
\* blank, \t, \n, \r, \f, \x0b and \x1c to \x1f
Whitespace == {" ", "\t", "\n", "\r", "\f", "", "", "", "", ""}

RECURSIVE SplitWS(_)
\* str.split() without arguments: runs of whitespace separate, no empty parts
SplitWS(cs) ==
    IF cs = << >> THEN << >>
    ELSE IF cs[1] \in Whitespace THEN SplitWS(Tail(cs))
    ELSE LET ws == {i \in 1..Len(cs) : cs[i] \in Whitespace}
             e  == IF ws = {} THEN Len(cs) + 1 ELSE MinOf(ws)
         IN  <<SubSeq(cs, 1, e - 1)>> \o SplitWS(SubSeq(cs, e, Len(cs)))

Digits == <<"0", "1", "2", "3", "4", "5", "6", "7", "8", "9">>

DigitVal(ch) == (CHOOSE i \in 1..10 : Digits[i] = ch) - 1

IsDigits(cs) == cs # << >> /\ \A i \in 1..Len(cs) : \E d \in 1..10 : Digits[d] = cs[i]

RECURSIVE ToInt(_)
\* int() of a string of decimal digits
ToInt(cs) ==
    IF cs = << >> THEN 0
    ELSE 10 * ToInt(SubSeq(cs, 1, Len(cs) - 1)) + DigitVal(cs[Len(cs)])

UpperCase == <<"A", "B", "C", "D", "E", "F", "G", "H", "I", "J", "K", "L", "M",
               "N", "O", "P", "Q", "R", "S", "T", "U", "V", "W", "X", "Y", "Z">>

LowerCase == <<"a", "b", "c", "d", "e", "f", "g", "h", "i", "j", "k", "l", "m",
               "n", "o", "p", "q", "r", "s", "t", "u", "v", "w", "x", "y", "z">>

LowerChar(ch) ==
    IF \E i \in 1..26 : UpperCase[i] = ch
    THEN LowerCase[CHOOSE i \in 1..26 : UpperCase[i] = ch]
    ELSE ch

\* str.lower()
Lower(cs) == [i \in 1..Len(cs) |-> LowerChar(cs[i])]

\* the "in" operator on strings: sub occurs in cs
Contains(cs, sub) ==
    \E i \in 1..(Len(cs) - Len(sub) + 1) : SubSeq(cs, i, i + Len(sub) - 1) = sub

\* os.path.splitext(p)[1]: the extension, from the last dot of the last path
\* component, unless that component has only leading dots before it
splitext(p) ==
    LET sepIndex == IF Positions(p, "/") = {} THEN 0 ELSE MaxOf(Positions(p, "/"))
        dotIndex == IF Positions(p, ".") = {} THEN 0 ELSE MaxOf(Positions(p, "."))
    IN  IF dotIndex > sepIndex
           /\ \E k \in (sepIndex + 1)..(dotIndex - 1) : p[k] # "."
        THEN SubSeq(p, dotIndex, Len(p))
        ELSE << >>

DigitChars == {Digits[i] : i \in 1..10}

HexDigits ==
    DigitChars \cup {LowerCase[i] : i \in 1..6} \cup {UpperCase[i] : i \in 1..6}

\* ipaddress.IPv4Address(s) accepts s: four octets of one to three decimal
\* digits, none above 255, none with a leading zero
IsIPv4Address(cs) ==
    LET octets == Split(cs, ".")
    IN  /\ Positions(cs, "/") = {}
        /\ Len(octets) = 4
        /\ \A i \in 1..4 :
              LET o == octets[i]
              IN  /\ o # << >>
                  /\ \A k \in 1..Len(o) : o[k] \in DigitChars
                  /\ Len(o) <= 3
                  /\ (o # <<"0">> => o[1] # "0")
                  /\ ToInt(o) <= 255

\* _parse_hextet accepts: one to four hexadecimal digits
IsHextet(cs) ==
    /\ cs # << >>
    /\ Len(cs) <= 4
    /\ \A k \in 1..Len(cs) : cs[k] \in HexDigits

\* ipaddress.IPv6Address(s) accepts s
IsIPv6Address(cs) ==
    LET percent == Positions(cs, "%")
        addr    == IF percent = {} THEN cs
                   ELSE SubSeq(cs, 1, MinOf(percent) - 1)
        scope   == IF percent = {} THEN << >>
                   ELSE SubSeq(cs, MinOf(percent) + 1, Len(cs))
        split   == Split(addr, ":")
        dotted  == Positions(split[Len(split)], ".") # {}
        \* a dotted last part stands for two hextets
        parts   == IF dotted
                   THEN SubSeq(split, 1, Len(split) - 1) \o <<<<"0">>, <<"0">>>>
                   ELSE split
        n       == Len(parts)
        skips   == {i \in 2..(n - 1) : parts[i] = << >>}
        skip    == MinOf(skips)
        hi      == IF parts[1] = << >> THEN skip - 2 ELSE skip - 1
        lo      == IF parts[n] = << >> THEN n - skip - 1 ELSE n - skip
    IN  /\ Positions(cs, "/") = {}
        /\ percent # {} => scope # << >> /\ Positions(scope, "%") = {}
        /\ addr # << >>
        /\ Len(split) >= 3
        /\ dotted => IsIPv4Address(split[Len(split)])
        /\ n <= 9
        /\ Cardinality(skips) <= 1
        /\ IF skips # {}
           THEN /\ parts[1] = << >> => hi = 0
                /\ parts[n] = << >> => lo = 0
                /\ 8 - (hi + lo) >= 1
                /\ \A i \in 1..hi : IsHextet(parts[i])
                /\ \A i \in (n - lo + 1)..n : IsHextet(parts[i])
           ELSE /\ n = 8
                /\ \A i \in 1..n : IsHextet(parts[i])

\* re.match(r"\Av[a-fA-F0-9]+\..+\Z", s)
IsIPvFuture(cs) ==
    \E j \in 3..(Len(cs) - 1) :
        /\ cs[1] = "v"
        /\ \A k \in 2..(j - 1) : cs[k] \in HexDigits
        /\ cs[j] = "."
        /\ \A k \in (j + 1)..Len(cs) : cs[k] # "\n"

\* _check_bracketed_host(hostname) raises ValueError
BracketedHostRaises(hostname) ==
    IF hostname # << >> /\ hostname[1] = "v"
    THEN ~IsIPvFuture(hostname)
    ELSE ~IsIPv6Address(hostname)

\* urllib.parse.urlsplit, the part up to the network location: leading
\* blanks and control characters are stripped and every \t \r \n is removed;
\* the text that follows a scheme (letters, digits, + - . before the first
\* colon, the first one a letter) or the whole text, if it starts with //,
\* gives the netloc, which ends before the first / ? or #
SchemeChars ==
    {LowerCase[i] : i \in 1..26} \cup {UpperCase[i] : i \in 1..26}
        \cup DigitChars \cup {"+", "-", "."}

\* _WHATWG_C0_CONTROL_OR_SPACE without the character \x00: \x01 to \x1f and
\* the blank
C0_CONTROL_OR_SPACE ==
    {"", "", "", "", "", "", "", "",
     "\t", "\n", "", "\f", "\r", "", "", "",
     "", "", "", "", "", "", "", "",
     "", "", "", "", "", "", "", " "}

RECURSIVE LStrip(_)
\* url.lstrip(_WHATWG_C0_CONTROL_OR_SPACE)
LStrip(cs) ==
    IF cs # << >> /\ cs[1] \in C0_CONTROL_OR_SPACE THEN LStrip(Tail(cs)) ELSE cs

\* the text urlsplit works on
UrlCleaned(text) ==
    SelectSeq(LStrip(text), LAMBDA c : c \notin {"\t", "\r", "\n"})

NetlocOf(url) ==
    LET colon == Positions(url, ":")
        i     == IF colon = {} THEN 0 ELSE MinOf(colon)
        rest  == IF /\ i > 1
                    /\ LowerChar(url[1]) \in {LowerCase[k] : k \in 1..26}
                    /\ \A k \in 1..(i - 1) : url[k] \in SchemeChars
                 THEN SubSeq(url, i + 1, Len(url))
                 ELSE url
        stop  == {k \in 3..Len(rest) : rest[k] \in {"/", "?", "#"}}
    IN  IF Len(rest) >= 2 /\ SubSeq(rest, 1, 2) = <<"/", "/">>
        THEN SubSeq(rest, 3, IF stop = {} THEN Len(rest) ELSE MinOf(stop) - 1)
        ELSE << >>

UrlNetloc(text) ==
    CHOOSE netloc \in {NetlocOf(url) : url \in {UrlCleaned(text)}} : TRUE

\* urlsplit raises ValueError: "Invalid IPv6 URL" for a netloc with one of
\* the brackets [ ] and not the other; the error of _check_bracketed_host
\* for a netloc with both, whose text between the first [ and the next ] is
\* neither an IPv6 nor an IPvFuture address
NetlocRaises(netloc) ==
    LET open   == Positions(netloc, "[")
        after  == IF open = {} THEN << >>
                  ELSE SubSeq(netloc, MinOf(open) + 1, Len(netloc))
        close  == Positions(after, "]")
        host   == IF close = {} THEN after ELSE SubSeq(after, 1, MinOf(close) - 1)
    IN  IF (open # {}) # (Positions(netloc, "]") # {})
        THEN TRUE
        ELSE open # {} /\ BracketedHostRaises(host)

UrlparseRaises(url) == \E netloc \in {UrlNetloc(url)} : NetlocRaises(netloc)

----------------------------------------------------------------------------
(* datetime: a naive datetime is its proleptic Gregorian ordinal day         *)
(* (date.toordinal()) and its second of the day                              *)

IsLeap(y) == y % 4 = 0 /\ (y % 100 # 0 \/ y % 400 = 0)

DaysInMonth(y, m) ==
    IF m = 2 THEN (IF IsLeap(y) THEN 29 ELSE 28)
    ELSE IF m \in {4, 6, 9, 11} THEN 30 ELSE 31

DaysBeforeYear(y) ==
    (y - 1) * 365 + ((y - 1) \div 4) - ((y - 1) \div 100) + ((y - 1) \div 400)

RECURSIVE DaysBeforeMonth(_, _)
DaysBeforeMonth(y, m) ==
    IF m = 1 THEN 0 ELSE DaysBeforeMonth(y, m - 1) + DaysInMonth(y, m - 1)

\* the arguments datetime.datetime(...) accepts; others raise ValueError
ValidDateTime(y, m, d, hh, mm, ss) ==
    /\ y \in 1..9999
    /\ m \in 1..12
    /\ d \in 1..DaysInMonth(y, m)
    /\ hh \in 0..23
    /\ mm \in 0..59
    /\ ss \in 0..59

\* datetime.datetime(y, m, d, hh, mm, ss, us): the day number, the second of
\* the day and the microsecond of the second
DateTimeMicro(y, m, d, hh, mm, ss, us) ==
    [ord |-> DaysBeforeYear(y) + DaysBeforeMonth(y, m) + d,
     sec |-> hh * 3600 + mm * 60 + ss,
     us  |-> us]

\* datetime.datetime(y, m, d, hh, mm, ss): the microsecond is 0
DateTime(y, m, d, hh, mm, ss) == DateTimeMicro(y, m, d, hh, mm, ss, 0)

\* datetime.weekday(): Monday is 0
Weekday(dt) == (dt.ord + 6) % 7

\* a - b, a timedelta: s whole seconds and us microseconds, 0 <= us < 10^6
Minus(a, b) ==
    LET s  == (a.ord - b.ord) * 86400 + (a.sec - b.sec)
        us == a.us - b.us
    IN  IF us < 0 THEN [s |-> s - 1, us |-> us + 1000000]
        ELSE [s |-> s, us |-> us]

\* (a - b).total_seconds() rounded down to a whole number; for a whole
\* number n, (a - b).total_seconds() < n iff SecondsBetween(a, b) < n, and
\* (a - b).total_seconds() >= n iff SecondsBetween(a, b) >= n
SecondsBetween(a, b) == Minus(a, b).s

\* delta.total_seconds() > n for a timedelta and a whole number n
Exceeds(delta, n) == delta.s > n \/ (delta.s = n /\ delta.us > 0)

\* a > b for two datetimes
Later(a, b) == Exceeds(Minus(a, b), 0)

\* the dict month_names, its keys as sequences of characters
month_names ==
    <<"J", "a", "n">> :> 1 @@ <<"F", "e", "b">> :> 2 @@ <<"M", "a", "r">> :> 3 @@
    <<"A", "p", "r">> :> 4 @@ <<"M", "a", "y">> :> 5 @@ <<"J", "u", "n">> :> 6 @@
    <<"J", "u", "l">> :> 7 @@ <<"A", "u", "g">> :> 8 @@ <<"S", "e", "p">> :> 9 @@
    <<"O", "c", "t">> :> 10 @@ <<"N", "o", "v">> :> 11 @@ <<"D", "e", "c">> :> 12

\* month_names.get(month, 1)
MonthNum(month) ==
    IF month \in DOMAIN month_names THEN month_names[month] ELSE 1

ParseFailure == [failed |-> TRUE]

\* The body of the try block of parse_time: the parsed fields, or ParseFailure
\* where the code raises (wrong number of parts, a non-numeric field, a date
\* or time out of range).  The fields considered carry no sign, blank or
\* underscore, so int() is the value of a digit string.
TimeFields(time_str) ==
    LET p == SplitMax(time_str, ":", 1)
    IN  IF Len(p) # 2 THEN ParseFailure
        ELSE
        LET d == Split(p[1], "/")
            t == SplitMax(p[2], ":", 2)
        IN  IF Len(d) # 3 \/ Len(t) # 3 THEN ParseFailure
            ELSE IF SplitWS(t[3]) = << >> THEN ParseFailure
            ELSE
            LET second == SplitWS(t[3])[1]
            IN  IF ~(IsDigits(d[3]) /\ IsDigits(d[1]) /\ IsDigits(t[1])
                     /\ IsDigits(t[2]) /\ IsDigits(second))
                THEN ParseFailure
                ELSE
                LET y  == ToInt(d[3])
                    m  == MonthNum(d[2])
                    dd == ToInt(d[1])
                    hh == ToInt(t[1])
                    mm == ToInt(t[2])
                    ss == ToInt(second)
                IN  IF ~ValidDateTime(y, m, dd, hh, mm, ss) THEN ParseFailure
                    ELSE [failed |-> FALSE,
                          dt |-> DateTime(y, m, dd, hh, mm, ss),
                          hour |-> hh]

----------------------------------------------------------------------------
(* classifiers *)

\* ipaddress.ip_address(ip) for dotted-quad text: the four octets, or << >>
\* where it raises ValueError
Octets(ip) ==
    LET parts == Split(ip, ".")
    IN  IF /\ Len(parts) = 4
           /\ \A i \in 1..4 : /\ IsDigits(parts[i])
                              /\ Len(parts[i]) <= 3
                              /\ (Len(parts[i]) > 1 => parts[i][1] # "0")
                              /\ ToInt(parts[i]) <= 255
        THEN [i \in 1..4 |-> ToInt(parts[i])]
        ELSE << >>

\* is_internal_ip: is_private or is_loopback or is_link_local or is_multicast
is_internal_ip(ip) ==
    LET o == Octets(Chars[ip])
    IN  /\ o # << >>
        /\ \/ o[1] \in {0, 10, 127}
           \/ o[1] = 169 /\ o[2] = 254
           \/ o[1] = 172 /\ o[2] \in 16..31
           \/ o[1] = 192 /\ o[2] = 168
           \/ o[1] = 192 /\ o[2] = 0 /\ o[3] = 0 /\ o[4] \in 0..7
           \/ o[1] = 192 /\ o[2] = 0 /\ o[3] = 0 /\ o[4] \in 170..171
           \/ o[1] = 192 /\ o[2] = 0 /\ o[3] = 2
           \/ o[1] = 198 /\ o[2] \in 18..19
           \/ o[1] = 198 /\ o[2] = 51 /\ o[3] = 100
           \/ o[1] = 203 /\ o[2] = 0 /\ o[3] = 113
           \/ o[1] \in 224..255

BOT_PATTERNS ==
    <<"bot", "crawl", "spider", "slurp", "baidu", "bing", "google",
      "yandex", "facebook", "archive", "lighthouse", "pagespeed", "pingdom",
      "uptimerobot", "semrush", "ahrefs", "moz", "screaming", "yahoo">>

\* no user agent taken for a bot
is_bot_Never(user_agent) == FALSE

\* is_bot of gunlog_traffic.py and gunlog_content.py
is_bot(user_agent) ==
    LET ua_lower == Lower(Chars[user_agent])
    IN  \E i \in 1..Len(BOT_PATTERNS) : Contains(ua_lower, Chars[BOT_PATTERNS[i]])

\* SE_BOTS of gunlog_seo.py in dictionary order; every pattern is a literal
\* matched case-insensitively
SE_BOTS ==
    << [name |-> "Googlebot", patterns |-> <<"googlebot", "google-site-verification",
                                             "google web preview", "google favicon">>],
       [name |-> "Bingbot", patterns |-> <<"bingbot", "msnbot", "adidxbot", "bingpreview">>],
       [name |-> "Yandex", patterns |-> <<"yandex", "yandexbot", "yandeximages">>],
       [name |-> "Baidu", patterns |-> <<"baiduspider", "baidu">>],
       [name |-> "DuckDuckGo", patterns |-> <<"duckduckbot", "duckduckgo">>],
       [name |-> "Yahoo", patterns |-> <<"yahoo! slurp", "yahooseeker">>],
       [name |-> "Other", patterns |-> <<"ahrefsbot", "semrushbot", "mj12bot",
                                         "dotbot", "blexbot", "seznambot">>] >>

None == "None"

\* identify_bot of gunlog_seo.py: the first bot name with a matching pattern
identify_bot(user_agent) ==
    LET ua_lower == Lower(Chars[user_agent])
        hits == {i \in 1..Len(SE_BOTS) :
                   \E k \in 1..Len(SE_BOTS[i].patterns) :
                       Contains(ua_lower, Chars[SE_BOTS[i].patterns[k]])}
    IN  IF hits = {} THEN None ELSE SE_BOTS[MinOf(hits)].name

static_extensions ==
    <<".jpg", ".jpeg", ".png", ".gif", ".ico", ".css",
      ".js", ".svg", ".woff", ".woff2", ".ttf", ".eot">>

\* file_ext in static_extensions, file_ext = os.path.splitext(url)[1].lower()
IsStaticExt(url, exts) ==
    LET file_ext == Lower(splitext(Chars[url]))
    IN  \E i \in 1..Len(exts) : Chars[exts[i]] = file_ext

----------------------------------------------------------------------------
(* collections.Counter and dict as functions with a growing domain *)

EmptyMap == << >>

Get(c, k) == IF k \in DOMAIN c THEN c[k] ELSE 0

\* c[k] += 1
Inc(c, k) == IF k \in DOMAIN c THEN [c EXCEPT ![k] = @ + 1] ELSE c @@ (k :> 1)

\* d[k] = v
Put(d, k, v) == IF k \in DOMAIN d THEN [d EXCEPT ![k] = v] ELSE d @@ (k :> v)

RECURSIVE SumOver(_, _)
SumOver(c, keys) ==
    IF keys = {} THEN 0
    ELSE LET k == CHOOSE x \in keys : TRUE
         IN  c[k] + SumOver(c, keys \ {k})

\* sum(c.values())
Total(c) == SumOver(c, DOMAIN c)

----------------------------------------------------------------------------
(* inputs: the fields the log pattern extracts from a matching line *)

MaxLines == 4

\* a line without referrer and without response size (the fields are "-")
Line(ip, time_str, request, status_code, user_agent) ==
    [ip |-> ip, time_str |-> time_str, request |-> request,
     status_code |-> status_code, user_agent |-> user_agent, referrer |-> "-",
     response_size |-> "-"]

LineSized(ip, time_str, request, response_size) ==
    [Line(ip, time_str, request, 200, "Opera/9.80") EXCEPT
        !.response_size = response_size]

LineFrom(ip, time_str, request, status_code, user_agent, referrer) ==
    [Line(ip, time_str, request, status_code, user_agent) EXCEPT !.referrer = referrer]

\* a referrer whose host opens a bracket and never closes it
BadReferrer == "http://[bad"

GoodReferrer == "http://x/"

T1235 == "10/Oct/2023:12:35:00 +0200"

T0  == "10/Oct/2023:13:00:00 +0200"

\* 59 and 60 seconds after T0
T0s59 == "10/Oct/2023:13:00:59 +0200"

T1  == "10/Oct/2023:13:01:00 +0200"

T5  == "10/Oct/2023:13:05:00 +0200"

T35 == "10/Oct/2023:13:35:00 +0200"

T40 == "10/Oct/2023:13:40:00 +0200"

T50 == "10/Oct/2023:13:50:00 +0200"

BadTime == "-"

ReqA == "GET /a HTTP/1.1"

ReqB == "GET /b HTTP/1.1"

ReqCss == "GET /s.css HTTP/1.1"

Opera == "Opera/9.80"

Browser == "Mozilla/5.0 (Windows NT 10.0; Win64; x64)"

Googlebot == "Mozilla/5.0 (compatible; Googlebot/2.1)"

Chrome ==
    "Mozilla/5.0 (Windows NT 10.0; Win64; x64) AppleWebKit/537.36 Chrome/120.0 Safari/537.36"

CommonLines ==
    {Line("8.8.8.8", t, ReqA, 200, Opera) : t \in {T0, T5, T35, T40, T50}}
    \cup {Line("8.8.8.8", T5, ReqB, 200, Opera),
          Line("1.1.1.1", T0, ReqA, 200, Opera),
          Line("8.8.8.8", BadTime, ReqA, 200, Opera)}

TrafficLines ==
    CommonLines
    \cup {Line("8.8.8.8", T40, ReqCss, 200, Opera),
          Line("8.8.8.8", T40, ReqB, 404, Opera),
          Line("10.0.0.1", T0, ReqA, 200, Opera),
          LineFrom("8.8.8.8", T5, ReqA, 200, Opera, BadReferrer),
          LineFrom("8.8.8.8", T5, ReqA, 200, Opera, GoodReferrer)}

ContentLines ==
    CommonLines
    \cup {Line("8.8.8.8", T40, ReqCss, 200, Opera),
          Line("8.8.8.8", T40, ReqB, 404, Opera),
          Line("8.8.8.8", T5, ReqA, 200, Browser),
          Line("8.8.8.8", BadTime, ReqB, 404, Googlebot)}

SeoLines ==
    CommonLines
    \cup {Line("8.8.8.8", T40, ReqB, 404, Opera),
          Line("8.8.8.8", T5, ReqA, 200, Googlebot),
          Line("8.8.8.8", T5, ReqB, 200, Googlebot)}

\* lines for the engagement figures of the content analyzer: visits of /a
\* 30 and 60 minutes apart with a visit of /b between them, response sizes
\* of 0 and of 120 bytes, and a visit of /a whose time is a clock reading
EngagementLines ==
    {LineSized("8.8.8.8", T1235, ReqA, "0"),
     LineSized("8.8.8.8", T5, ReqB, "-"),
     LineSized("8.8.8.8", T5, ReqA, "120"),
     LineSized("8.8.8.8", T35, ReqA, "0"),
     LineSized("8.8.8.8", T35, ReqB, "120"),
     LineSized("1.1.1.1", T0, ReqA, "-"),
     LineSized("8.8.8.8", BadTime, ReqA, "120")}

session_timeout == 30 * 60

\* an id that leaves the timestamp out
SessionId_IpOnly(ip, timestamp) == <<ip>>

\* f"{ip}_{timestamp.timestamp()}"; the local time zone is taken to have no
\* clock changes, so that timestamp() is one-to-one
SessionId(ip, timestamp) == <<ip, timestamp>>

----------------------------------------------------------------------------
(* what the loop bodies derive from one field alone, tabulated over the     *)
(* strings of the input lines                                                *)

\* request.split(): method and url, or UNKNOWN for both
TrafficRequest(request) ==
    LET request_parts == SplitWS(Chars[request])
    IN  IF Len(request_parts) >= 2
        THEN [method |-> Str(request_parts[1]), url |-> Str(request_parts[2])]
        ELSE [method |-> "UNKNOWN", url |-> "UNKNOWN"]

content_static_extensions ==
    <<".css", ".js", ".jpg", ".jpeg", ".png", ".gif", ".ico", ".svg">>

\* url_pattern.search(line).group(1) for a line whose only text of the form
\* "METHOD url is its request: the url after GET, POST or HEAD and one
\* blank, up to the next blank or quote; None if the request has not that form
UrlAfterMethod(cs) ==
    LET methods == {<<"G", "E", "T">>, <<"P", "O", "S", "T">>, <<"H", "E", "A", "D">>}
        ms == {m \in methods :
                 /\ Len(cs) > Len(m)
                 /\ SubSeq(cs, 1, Len(m)) = m
                 /\ cs[Len(m) + 1] = " "}
    IN  IF ms = {} THEN None
        ELSE LET m    == CHOOSE x \in ms : TRUE
                 rest == SubSeq(cs, Len(m) + 2, Len(cs))
                 stop == {i \in 1..Len(rest) : rest[i] \in Whitespace \cup {"\""}}
                 e    == IF stop = {} THEN Len(rest) + 1 ELSE MinOf(stop)
             IN  IF e = 1 THEN None ELSE Str(SubSeq(rest, 1, e - 1))

ContentUrl(request) ==
    CHOOSE url \in {UrlAfterMethod(cs) : cs \in {Chars[request]}} : TRUE

\* str.startswith
StartsWith(cs, prefix) ==
    Len(cs) >= Len(prefix) /\ SubSeq(cs, 1, Len(prefix)) = prefix

\* request.split(' '): method and url, or '' for both; scheme is "https" or
\* "http" for a url that starts with https:// or http://, else ''
SeoRequest(request) ==
    LET request_parts == Split(Chars[request], " ")
        url == IF Len(request_parts) >= 2 THEN request_parts[2] ELSE << >>
    IN  [method |-> IF Len(request_parts) >= 2 THEN Str(request_parts[1]) ELSE "",
         url    |-> IF Len(request_parts) >= 2 THEN Str(url) ELSE "",
         scheme |-> IF StartsWith(url, <<"h", "t", "t", "p", "s", ":", "/", "/">>)
                    THEN "https"
                    ELSE IF StartsWith(url, <<"h", "t", "t", "p", ":", "/", "/">>)
                    THEN "http" ELSE ""]

\* lines of a crawler, of three browsers and of an internal address
HitLines ==
    {Line("8.8.8.8", T0, ReqA, 200, Opera),
     Line("8.8.8.8", T5, ReqA, 200, Googlebot),
     Line("8.8.8.8", T5, ReqA, 200, Browser),
     Line("8.8.8.8", T5, ReqA, 200, Chrome),
     Line("10.0.0.1", T0, ReqA, 200, Opera),
     Line("8.8.8.8", BadTime, ReqA, 200, Opera)}

AllLines ==
    TrafficLines \cup ContentLines \cup SeoLines \cup EngagementLines
        \cup HitLines

ParsedTime ==
    [s \in {l.time_str : l \in AllLines} \cup {T0s59, T1} |-> TimeFields(Chars[s])]

InternalIp == [ip \in {l.ip : l \in AllLines} |-> is_internal_ip(ip)]

BotUA == [ua \in {l.user_agent : l \in AllLines} |-> is_bot(ua)]

BotName == [ua \in {l.user_agent : l \in AllLines} |-> identify_bot(ua)]

TrafficReq == [r \in {l.request : l \in AllLines} |-> TrafficRequest(r)]

ContentReq == [r \in {l.request : l \in AllLines} |-> ContentUrl(r)]

SeoReq == [r \in {l.request : l \in AllLines} |-> SeoRequest(r)]

Urls ==
    {TrafficReq[r].url : r \in DOMAIN TrafficReq}
        \cup {SeoReq[r].url : r \in DOMAIN SeoReq}
        \cup ({ContentReq[r] : r \in DOMAIN ContentReq} \ {None})

ReferrerRaises == [r \in {l.referrer : l \in AllLines} |-> UrlparseRaises(Chars[r])]

StaticUrl == [u \in Urls |-> IsStaticExt(u, static_extensions)]

ContentStaticUrl == [u \in Urls |-> IsStaticExt(u, content_static_extensions)]

\* parse_time(time_str); now is what datetime.datetime.now() returns if the
\* except branch is taken.  The result is the tuple (dt, hour, day_of_week).
parse_time(time_str, now) ==
    CHOOSE result \in
        {IF f.failed
         THEN [timestamp |-> now, hour |-> 0, day_of_week |-> 0]
         ELSE [timestamp |-> f.dt, hour |-> f.hour, day_of_week |-> Weekday(f.dt)] :
         f \in {ParsedTime[time_str]}} : TRUE

\* what datetime.datetime.now() may return while the log is scanned: readings
\* some microseconds, a second and most of a day apart
NowValues ==
    {DateTimeMicro(2023, 10, 10, 13, 45, 0, 12),
     DateTimeMicro(2023, 10, 10, 13, 45, 0, 50),
     DateTime(2023, 10, 10, 13, 45, 1),
     DateTimeMicro(2023, 10, 11, 9, 0, 0, 555141)}

NoClock == [unread |-> TRUE]

\* parse_time reads the clock only in its except branch
ReadsClock(time_str) == ParsedTime[time_str].failed

\* the clock readings a call of parse_time on time_str can consume: none if
\* time_str parses, else any reading.  datetime.now() is the wall clock in
\* local time: a reading may equal an earlier one or lie before it
Clock(time_str) ==
    IF ReadsClock(time_str) THEN NowValues ELSE {NoClock}

----------------------------------------------------------------------------
(* state *)

VARIABLES
    analyzer,        \* which script scans the log
    pc,              \* "scan": in the loop over the lines; "done": returned
                     \* metrics; "failed": returned None
    log,             \* the matching lines whose loop body ran to its end, each
                     \* with the clock reading used
    line_count, match_count, skipped_count,
    unmatched,       \* the lines read that the log pattern did not match (kept
                     \* for the checks; the code has no such counter)
    total_hits, bot_hits, human_hits,
    hourly_traffic, daily_traffic,
    pages, entry_pages, exit_pages,
    sessions,        \* metrics['sessions'] (traffic, content), sessions (SEO)
    ip_sessions,     \* IP -> last seen timestamp (traffic, content)
    paths,           \* metrics['paths'] (traffic)
    ip_last_seen, top_entry_pages, top_exit_pages,  \* SEO
    crawl_state,     \* metrics['urls_by_status'], metrics['crawled_urls'],
                     \* metrics['crawl_frequency'] and bot_last_crawl (SEO)
    content_engagement,  \* metrics['content_engagement'] (content)
    engagement_rates,    \* metrics['engagement_rates'] (content)
    trending_content,    \* metrics['trending_content'] (content)
    start_time,          \* what datetime.datetime.now() returned when
                         \* parse_access_log of gunlog_content.py began
    first_run,           \* the log and the metrics of an earlier scan of the
                         \* same file, or NoRun
    USER_AGENTS_AVAILABLE,  \* whether the import of user_agents succeeded
    browsers, os, devices   \* the sums of the counts of metrics['browsers'],
                            \* metrics['os'] and metrics['devices'] (traffic);
                            \* their keys are made by the user_agents package

scanVars == <<analyzer, pc, log, line_count, unmatched, match_count,
              skipped_count, total_hits, bot_hits, human_hits, hourly_traffic,
              daily_traffic, pages, entry_pages, exit_pages, sessions,
              ip_sessions, paths, ip_last_seen, top_entry_pages, top_exit_pages,
              crawl_state, content_engagement, engagement_rates, trending_content,
              start_time, first_run, USER_AGENTS_AVAILABLE, browsers, os,
              devices>>

\* what a scan, once begun, leaves alone
envVars == <<USER_AGENTS_AVAILABLE, start_time, first_run>>

NoRun == [run |-> FALSE]

\* the entries of metrics and bot_last_crawl that the SEO issues are found
\* from, as parse_access_log sets them up
FreshCrawlState ==
    [urls_by_status |-> EmptyMap, crawled_urls |-> << >>,
     crawl_frequency |-> << >>, bot_last_crawl |-> EmptyMap]

uaVars == <<browsers, os, devices>>

contentOnlyVars == <<content_engagement, engagement_rates, trending_content>>

seoVars == <<ip_last_seen, top_entry_pages, top_exit_pages, crawl_state>>

trafficOnlyVars == <<skipped_count, bot_hits, human_hits, pages, entry_pages,
                     exit_pages, paths>>

\* the variables of the main functions, which the scan of one log leaves alone
VARIABLES
    projects_data,       \* the rows read from the projects CSV
    project_index,       \* how many of them the loop of main has taken
    main_pc,             \* "loop": in the loop over the projects; "done"
    processed_projects,
    directories,         \* the directories ensure_dir has made
    files                \* the report files written: path -> content

\* gunlog.py, the master runner
VARIABLES
    runner_pc,       \* "loop": in the loop over the scripts; "exited": after
                     \* sys.exit
    script_index,    \* how many scripts the loop of main has taken
    results,         \* the list results of main, without the timestamps
    last_run,        \* the script of the last call of run_script and what
                     \* became of its process, or NoRun
    exit_status      \* the argument of sys.exit, or None

runnerVars == <<runner_pc, script_index, results, last_run, exit_status>>

\* the variables of the main functions of gunlog_traffic.py and gunlog.py
mainVars == <<projects_data, project_index, main_pc, processed_projects,
              directories, files, runnerVars>>

\* the master runner has not been started
RunnerIdle ==
    /\ runner_pc = "idle"
    /\ script_index = 0
    /\ results = << >>
    /\ last_run = [run |-> FALSE]
    /\ exit_status = "None"

\* no main has been started
MainIdle ==
    /\ RunnerIdle
    /\ projects_data = << >>
    /\ project_index = 0
    /\ main_pc = "idle"
    /\ processed_projects = << >>
    /\ directories = {}
    /\ files = EmptyMap

\* gunlog_performance.py
VARIABLES
    response_times,      \* metrics['response_times'], in tenths of a second
    summary,             \* summary['response_time_stats'] once it is computed
    perf_pc,             \* parse_access_log: "scan" in the loop over the
                         \* lines, "done" once it has returned the metrics
    perf_log,            \* the matching lines read
    perf_line_count, perf_match_count,
    perf_metrics         \* the dictionary metrics of parse_access_log

perfScanVars == <<perf_pc, perf_log, perf_line_count, perf_match_count,
                  perf_metrics>>

perfVars == <<response_times, summary, perfScanVars>>

NoSummary == [computed |-> FALSE]

\* metrics as parse_access_log sets it up
FreshPerfMetrics ==
    [requests        |-> 0,
     status_codes    |-> EmptyMap,
     response_times  |-> << >>,
     response_sizes  |-> << >>,
     url_metrics     |-> EmptyMap,
     hourly_traffic  |-> EmptyMap,
     request_methods |-> EmptyMap,
     file_types      |-> EmptyMap,
     slow_requests   |-> << >>]

PerfScanFresh ==
    /\ perf_log = << >>
    /\ perf_line_count = 0
    /\ perf_match_count = 0
    /\ perf_metrics = FreshPerfMetrics

\* neither parse_access_log nor calculate_summary_metrics has been called
PerfIdle ==
    /\ response_times = << >>
    /\ summary = NoSummary
    /\ perf_pc = "idle"
    /\ PerfScanFresh

\* gunlog_security.py
VARIABLES
    sec_pc,                   \* "parsed": parse_access_log has returned the
                              \* metrics; "html": the HTML report is written;
                              \* "done": the text report too
    attack_types,             \* metrics['attack_types']
    security_events,          \* metrics['security_events']
    sensitive_urls_accessed,  \* metrics['sensitive_urls_accessed']
    security_scores,          \* report ("html", "text") -> the security_score
                              \* it has computed
    sec_log,                  \* the matching lines read, each with the clock
                              \* reading used (kept for the checks)
    sec_line_count, sec_match_count,
    ip_auth_failures, ip_request_times,
    sec_metrics               \* the other entries of metrics

secScanVars == <<sec_log, sec_line_count, sec_match_count, ip_auth_failures,
                 ip_request_times, sec_metrics>>

secVars == <<sec_pc, attack_types, security_events, sensitive_urls_accessed,
             security_scores, secScanVars>>

\* the entries of metrics that have no variable of their own, as
\* parse_access_log sets them up
FreshSecMetrics ==
    [total_requests |-> 0, http_methods |-> EmptyMap, status_codes |-> EmptyMap,
     security_status_codes |-> EmptyMap, high_frequency_ips |-> EmptyMap,
     firewall_recommendations |-> {}, attack_vectors |-> EmptyMap,
     top_attack_sources |-> EmptyMap, hourly_attacks |-> EmptyMap,
     attack_time_distribution |-> EmptyMap, suspicious_ips |-> EmptyMap,
     suspicious_user_agents |-> EmptyMap, suspicious_requests |-> << >>]

SecScanFresh ==
    /\ sec_log = << >>
    /\ sec_line_count = 0
    /\ sec_match_count = 0
    /\ ip_auth_failures = EmptyMap
    /\ ip_request_times = EmptyMap
    /\ sec_metrics = FreshSecMetrics

\* the security analyzer has not been started
SecIdle ==
    /\ sec_pc = "idle"
    /\ attack_types = EmptyMap
    /\ security_events = << >>
    /\ sensitive_urls_accessed = EmptyMap
    /\ security_scores = EmptyMap
    /\ SecScanFresh

\* gunlog_seo.py, after the scan
VARIABLES
    seo_pc,          \* "parsed", "html", "done" as sec_pc
    seo_issues,      \* metrics['seo_issues']
    bot_requests,    \* metrics['bot_requests']
    http_vs_https,   \* metrics['http_vs_https']
    seo_scores       \* report ("html", "text") -> the seo_score it has computed

seoReportVars == <<seo_pc, seo_issues, bot_requests, http_vs_https, seo_scores>>

\* the reports of the SEO analyzer are not modelled
SeoReportIdle ==
    /\ seo_pc = "idle"
    /\ seo_issues = << >>
    /\ bot_requests = 0
    /\ http_vs_https = [http |-> 0, https |-> 0]
    /\ seo_scores = EmptyMap

\* the variables of the report stages
scoreVars == <<secVars, seoReportVars>>

ScoreIdle == SecIdle /\ SeoReportIdle

\* the variables that the scan of one log leaves alone
otherVars == <<mainVars, perfVars, scoreVars>>

OthersIdle == MainIdle /\ PerfIdle /\ ScoreIdle

\* the variables that main leaves alone
mainOthers == <<scanVars, perfVars, scoreVars, runnerVars>>

\* the counters and collections as parse_access_log sets them up
ScanFresh ==
    /\ log = << >>
    /\ line_count = 0
    /\ unmatched = 0
    /\ match_count = 0
    /\ skipped_count = 0
    /\ total_hits = 0
    /\ bot_hits = 0
    /\ human_hits = 0
    /\ hourly_traffic = EmptyMap
    /\ daily_traffic = EmptyMap
    /\ pages = EmptyMap
    /\ entry_pages = EmptyMap
    /\ exit_pages = EmptyMap
    /\ sessions = EmptyMap
    /\ ip_sessions = EmptyMap
    /\ paths = << >>
    /\ ip_last_seen = EmptyMap
    /\ top_entry_pages = EmptyMap
    /\ top_exit_pages = EmptyMap
    /\ crawl_state = FreshCrawlState
    /\ content_engagement = EmptyMap
    /\ engagement_rates = EmptyMap
    /\ trending_content = << >>
    /\ browsers = 0
    /\ os = 0
    /\ devices = 0

\* no scan is modelled
ScanIdle ==
    /\ analyzer = "none"
    /\ pc = "idle"
    /\ USER_AGENTS_AVAILABLE = FALSE
    /\ start_time = NoClock
    /\ first_run = NoRun
    /\ ScanFresh

\* the times at which a scan may begin
StartTimes ==
    {DateTime(2023, 10, 10, 13, 45, 0), DateTime(2023, 10, 11, 13, 20, 0),
     DateTime(2023, 10, 12, 9, 0, 0)}

\* the optional package user_agents is taken to be absent here and the scan
\* to begin at the earliest of the clock readings; HitsSpec and RerunSpec
\* below cover the other outcomes of the import and the other times
Init ==
    /\ analyzer \in {"traffic", "content", "seo"}
    /\ pc = "scan"
    /\ USER_AGENTS_AVAILABLE = FALSE
    /\ start_time = DateTime(2023, 10, 10, 13, 45, 0)
    /\ first_run = NoRun
    /\ ScanFresh
    /\ OthersIdle

----------------------------------------------------------------------------
(* gunlog_traffic.py *)

\* the comparison with >= in place of >
GapExceeds_AtLeast(timestamp, last_time) ==
    SecondsBetween(timestamp, last_time) >= session_timeout

\* timestamp - last_time > session_timeout
GapExceeds(timestamp, last_time) ==
    Exceeds(Minus(timestamp, last_time), session_timeout)

\* One execution of the body of the loop over the lines, for a line that the
\* log pattern matches.  An exception raised in the body is caught outside the
\* loop: the function returns None and the metrics are dropped.
TrafficLine(line, now) ==
    /\ analyzer = "traffic"
    /\ pc = "scan"
    /\ line_count < MaxLines
    /\ (now # NoClock) = (~InternalIp[line.ip] /\ ReadsClock(line.time_str))
    /\ line_count' = line_count + 1 /\ UNCHANGED unmatched
    /\ match_count' = match_count + 1
    /\ UNCHANGED <<otherVars, envVars, contentOnlyVars, analyzer, seoVars>>
    /\ IF InternalIp[line.ip]
       THEN /\ now = NoClock
            /\ pc' = pc
            /\ log' = Append(log, [line |-> line, now |-> now])
            /\ skipped_count' = skipped_count + 1
            /\ UNCHANGED <<total_hits, bot_hits, human_hits, hourly_traffic,
                           daily_traffic, pages, entry_pages, exit_pages,
                           sessions, ip_sessions, paths, uaVars>>
       ELSE
       LET ip          == line.ip
           status_code == line.status_code
           pt          == parse_time(line.time_str, now)
           timestamp   == pt.timestamp
           req         == TrafficReq[line.request]
           method      == req.method
           url         == req.url
           is_static   == StaticUrl[url]
           is_bot_ua   == BotUA[line.user_agent]
           known       == ip \in DOMAIN ip_sessions
           fresh       == ~known \/ GapExceeds(timestamp, ip_sessions[ip])
           session_id  == IF fresh THEN SessionId(ip, timestamp)
                          ELSE sessions[ip][1][3]
           \* classify_referrer(referrer) raises, which ends the scan
           raises      == /\ line.referrer \notin {"-", ""}
                          /\ ReferrerRaises[line.referrer]
       IN  /\ now \in Clock(line.time_str)
           /\ UNCHANGED skipped_count
           /\ total_hits' = total_hits + 1
           /\ bot_hits' = IF is_bot_ua THEN bot_hits + 1 ELSE bot_hits
           /\ human_hits' = IF is_bot_ua THEN human_hits ELSE human_hits + 1
           /\ IF USER_AGENTS_AVAILABLE /\ ~is_bot_ua
              THEN /\ browsers' = browsers + 1
                   /\ os' = os + 1
                   /\ devices' = devices + 1
              ELSE UNCHANGED uaVars
           /\ hourly_traffic' = Inc(hourly_traffic, pt.hour)
           /\ daily_traffic' = Inc(daily_traffic, pt.day_of_week)
           /\ pages' = IF ~is_static /\ status_code = 200 /\ method = "GET"
                       THEN Inc(pages, url) ELSE pages
           /\ IF raises
              THEN /\ pc' = "failed"
                   /\ UNCHANGED <<log, exit_pages, entry_pages, sessions,
                                  ip_sessions, paths>>
              ELSE
              /\ pc' = pc
              /\ log' = Append(log, [line |-> line, now |-> now])
              /\ exit_pages' =
                    IF known /\ fresh /\ Len(sessions[ip]) > 0
                    THEN Inc(exit_pages, sessions[ip][Len(sessions[ip])][2])
                    ELSE exit_pages
              /\ entry_pages' =
                    IF fresh /\ ~is_static /\ status_code = 200
                    THEN Inc(entry_pages, url) ELSE entry_pages
              /\ sessions' =
                    IF fresh
                    THEN Put(sessions, ip, << <<timestamp, url, session_id>> >>)
                    ELSE [sessions EXCEPT ![ip] = Append(@, <<timestamp, url, session_id>>)]
              /\ ip_sessions' = Put(ip_sessions, ip, timestamp)
              /\ paths' = Append(paths, <<timestamp, ip, url, session_id>>)

\* the loop after the scan left out
FinalExitPages_Skipped(exits, sess) == exits

\* The loop after the scan: exit_pages[last_url] += 1 for every session in
\* metrics['sessions']
FinalExitPages(exits, sess) ==
    LET last_url(ip) == sess[ip][Len(sess[ip])][2]
        open == {ip \in DOMAIN sess : Len(sess[ip]) > 0}
        urls == DOMAIN exits \cup {last_url(ip) : ip \in open}
    IN  [u \in urls |->
           Get(exits, u) + Cardinality({ip \in open : last_url(ip) = u})]

\* The code after the loop: the exit pages of the sessions still open, then
\* the return of metrics.
TrafficFinish ==
    /\ analyzer = "traffic"
    /\ pc = "scan"
    /\ pc' = "done"
    /\ exit_pages' = FinalExitPages(exit_pages, sessions)
    /\ UNCHANGED <<otherVars, envVars, uaVars, contentOnlyVars, analyzer, log, line_count, unmatched, match_count, skipped_count, total_hits, bot_hits,
                   human_hits, hourly_traffic, daily_traffic, pages, entry_pages,
                   sessions, ip_sessions, paths, seoVars>>

RECURSIVE UniquePages(_)
\* the set unique_pages that calculate_bounce_rate builds for one session
UniquePages(session) ==
    IF session = << >> THEN {}
    ELSE LET url == session[Len(session)][2]
             before == UniquePages(SubSeq(session, 1, Len(session) - 1))
         IN  IF ~StaticUrl[url] THEN before \cup {url} ELSE before

\* a session without any page counted as a bounce too (<= 1 in place of == 1)
calculate_bounce_rate_AtMostOne(sess) ==
    LET single_page_sessions ==
            Cardinality({ip \in DOMAIN sess : Cardinality(UniquePages(sess[ip])) <= 1})
        total_sessions == Cardinality(DOMAIN sess)
    IN  IF total_sessions > 0
        THEN [num |-> single_page_sessions * 100, den |-> total_sessions]
        ELSE [num |-> 0, den |-> 1]

\* calculate_bounce_rate(metrics): the quotient single_page_sessions * 100 /
\* total_sessions as numerator and denominator (0 when there is no session)
calculate_bounce_rate(sess) ==
    LET single_page_sessions ==
            Cardinality({ip \in DOMAIN sess : Cardinality(UniquePages(sess[ip])) = 1})
        total_sessions == Cardinality(DOMAIN sess)
    IN  IF total_sessions > 0
        THEN [num |-> single_page_sessions * 100, den |-> total_sessions]
        ELSE [num |-> 0, den |-> 1]

\* calculate_visitor_flow, the grouping by session id: the positions in
\* metrics['paths'] of the non-static events that session_paths[session_id]
\* collects
session_paths(pths, session_id) ==
    {i \in 1..Len(pths) :
        pths[i][4] = session_id /\ ~StaticUrl[pths[i][3]]}

----------------------------------------------------------------------------
(* gunlog_content.py *)

\* calculate_reading_time(size): size / 6 / 200 * 60 seconds, that is size
\* twentieths of a second; the times of the engagement figures are kept in
\* twentieths of a second
calculate_reading_time(size) == IF size <= 0 THEN 0 ELSE size

Twentieths(seconds) == 20 * seconds

RECURSIVE Gcd(_, _)
Gcd(a, b) == IF b = 0 THEN a ELSE Gcd(b, a % b)

\* the quotient n / d of two whole numbers (n >= 0, d > 0) in lowest terms,
\* for the results of float divisions
Frac(n, d) == [num |-> n \div Gcd(n, d), den |-> d \div Gcd(n, d)]

RECURSIVE SeqSum(_)
\* sum(engagement_times)
SeqSum(s) == IF s = << >> THEN 0 ELSE s[1] + SeqSum(Tail(s))

\* the test that lets the time between two visits count, on the timedelta
\* whose total_seconds() is time_diff
RevisitGapCounts(time_diff) == Exceeds(time_diff, 0) /\ time_diff.s < 3600

\* what the session kept under key adds to the engagement_times of url: the
\* times between its consecutive visits of url that pass the test, then the
\* estimated reading time of every engagement of url by the IP of the key.
\* A time is tw twentieths of a second plus us microseconds
EngagementTimes(url, key, sess, engagements) ==
    LET url_visits == SelectSeq(sess[key], LAMBDA v : v[2] = url)
        time_diff  == [i \in 1..(Len(url_visits) - 1) |->
                         Minus(url_visits[i + 1][1], url_visits[i][1])]
        counted    == SelectSeq(time_diff, RevisitGapCounts)
        own        == SelectSeq(engagements,
                                LAMBDA e : e.ip = Str(Split(Chars[key], "_")[1]))
    IN  IF Len(url_visits) > 0
        THEN [i \in 1..Len(counted) |->
                 [tw |-> Twentieths(counted[i].s), us |-> counted[i].us]]
                \o [i \in 1..Len(own) |->
                       [tw |-> own[i].estimated_reading_time, us |-> 0]]
        ELSE << >>

\* a float number of seconds as an exact sum: num / den seconds and
\* micro.num / micro.den microseconds
Seconds(num, den, us, uden) ==
    [num |-> Frac(num, den).num, den |-> Frac(num, den).den,
     micro |-> Frac(us, uden)]

\* seconds * share for a quotient share
Scaled(seconds, share) ==
    Seconds(seconds.num * share.num, seconds.den * share.den,
            seconds.micro.num * share.num, seconds.micro.den * share.den)

\* the score as the share of bounces in place of the share of the others
engagement_score_OfBounces(avg_engagement, bounce_rate) ==
    IF bounce_rate.num < 100 * bounce_rate.den
    THEN LET share == Frac(bounce_rate.num, 100 * bounce_rate.den)
         IN  Scaled(avg_engagement, share)
    ELSE Seconds(0, 1, 0, 1)

\* avg_engagement * (1 - (bounce_rate / 100)) if bounce_rate < 100 else 0
engagement_score(avg_engagement, bounce_rate) ==
    IF bounce_rate.num < 100 * bounce_rate.den
    THEN LET share == Frac(100 * bounce_rate.den - bounce_rate.num,
                           100 * bounce_rate.den)
         IN  Scaled(avg_engagement, share)
    ELSE Seconds(0, 1, 0, 1)

\* metrics['engagement_rates'] as the code after the loop fills it: an entry
\* for every URL with engagements and a non-empty list engagement_times
EngagementRates(sess, engagement) ==
    LET times(url) == [key \in DOMAIN sess |->
                          EngagementTimes(url, key, sess, engagement[url])]
        part(url, key, f) == [i \in DOMAIN times(url)[key] |-> times(url)[key][i][f]]
        total(url) == SumOver([key \in DOMAIN sess |-> SeqSum(part(url, key, "tw"))],
                              DOMAIN sess)
        micro(url) == SumOver([key \in DOMAIN sess |-> SeqSum(part(url, key, "us"))],
                              DOMAIN sess)
        count(url) == SumOver([key \in DOMAIN sess |-> Len(times(url)[key])],
                              DOMAIN sess)
        urls_in_session(key) == {sess[key][i][2] : i \in 1..Len(sess[key])}
        url_views(url) ==
            Cardinality({key \in DOMAIN sess : url \in urls_in_session(key)})
        url_bounces(url) ==
            Cardinality({key \in DOMAIN sess : urls_in_session(key) = {url}})
        avg_engagement(url) ==
            Seconds(total(url), 20 * count(url), micro(url), count(url))
        bounce_rate(url) == IF url_views(url) > 0
                            THEN Frac(url_bounces(url) * 100, url_views(url))
                            ELSE Frac(0, 1)
    IN  [url \in {u \in DOMAIN engagement :
                     engagement[u] # << >> /\ count(u) > 0} |->
           [avg_time_on_page |-> avg_engagement(url),
            bounce_rate      |-> bounce_rate(url),
            engagement_score |->
                engagement_score(avg_engagement(url), bounce_rate(url))]]

\* now - datetime.timedelta(days=1)
Yesterday(now) == [now EXCEPT !.ord = @ - 1]

\* [(url, count) for url, count in trending_counts.most_common()]: the URLs
\* of the list with their numbers of entries, the larger numbers first and
\* equal numbers in the order of the first entries
TrendingCounts(trending) ==
    LET urls     == {trending[i][1] : i \in 1..Len(trending)}
        count(u) == Cardinality({i \in 1..Len(trending) : trending[i][1] = u})
        first(u) == MinOf({i \in 1..Len(trending) : trending[i][1] = u})
        rank(u)  == 1 + Cardinality({v \in urls :
                          \/ count(v) > count(u)
                          \/ count(v) = count(u) /\ first(v) < first(u)})
    IN  [k \in 1..Cardinality(urls) |->
           LET u == CHOOSE v \in urls : rank(v) = k IN <<u, count(u)>>]

\* One execution of the body of the loop over the lines, for a line that the
\* log pattern matches.
ContentLine(line, now) ==
    /\ analyzer = "content"
    /\ pc = "scan"
    /\ line_count < MaxLines
    /\ (now # NoClock) = (~BotUA[line.user_agent] /\ ReadsClock(line.time_str))
    /\ line_count' = line_count + 1 /\ UNCHANGED unmatched
    /\ match_count' = match_count + 1
    /\ log' = Append(log, [line |-> line, now |-> now])
    /\ UNCHANGED <<otherVars, envVars, uaVars, engagement_rates, analyzer, pc, seoVars,
                   trafficOnlyVars>>
    /\ IF BotUA[line.user_agent]
       THEN /\ now = NoClock
            /\ UNCHANGED <<total_hits, hourly_traffic, daily_traffic, sessions,
                           ip_sessions, content_engagement, trending_content>>
       ELSE
       LET ip          == line.ip
           pt          == parse_time(line.time_str, now)
           timestamp   == pt.timestamp
           yesterday   == Yesterday(start_time)
           url         == ContentReq[line.request]
           is_static   == url # None /\ ContentStaticUrl[url]
           fresh       == \/ ip \notin DOMAIN ip_sessions
                          \/ GapExceeds(timestamp, ip_sessions[ip])
           session_id  == IF fresh THEN SessionId(ip, timestamp)
                          ELSE sessions[ip][1][3]
       IN  /\ now \in Clock(line.time_str)
           /\ IF url = None \/ is_static \/ line.status_code # 200
              THEN UNCHANGED <<total_hits, hourly_traffic, daily_traffic, sessions,
                               ip_sessions, content_engagement, trending_content>>
              ELSE /\ total_hits' = total_hits + 1
                   /\ trending_content' =
                         IF Later(timestamp, yesterday)
                         THEN Append(trending_content, <<url, timestamp>>)
                         ELSE trending_content
                   /\ content_engagement' =
                         IF line.response_size # "-" /\ IsDigits(Chars[line.response_size])
                         THEN Put(content_engagement, url,
                                  Append(IF url \in DOMAIN content_engagement
                                         THEN content_engagement[url] ELSE << >>,
                                         [ip |-> ip,
                                          estimated_reading_time |->
                                             calculate_reading_time(
                                                 ToInt(Chars[line.response_size]))]))
                         ELSE content_engagement
                   /\ hourly_traffic' = Inc(hourly_traffic, pt.hour)
                   /\ daily_traffic' = Inc(daily_traffic, pt.day_of_week)
                   /\ sessions' =
                         IF fresh
                         THEN Put(sessions, ip, << <<timestamp, url, session_id>> >>)
                         ELSE [sessions EXCEPT
                                 ![ip] = Append(@, <<timestamp, url, session_id>>)]
                   /\ ip_sessions' = Put(ip_sessions, ip, timestamp)

\* The end of the loop and the code after it; the sessions are not changed
\* any more.
ContentFinish ==
    /\ analyzer = "content"
    /\ pc = "scan"
    /\ pc' = "done"
    /\ engagement_rates' = EngagementRates(sessions, content_engagement)
    /\ trending_content' = TrendingCounts(trending_content)
    /\ UNCHANGED <<otherVars, envVars, uaVars, content_engagement, analyzer, log, line_count, unmatched, match_count, total_hits, hourly_traffic,
                   daily_traffic, sessions, ip_sessions, seoVars, trafficOnlyVars>>

----------------------------------------------------------------------------
(* gunlog_seo.py *)

\* (timestamp - ip_last_seen[ip]) < session_timeout
SeoContinues(timestamp, last_seen) ==
    SecondsBetween(timestamp, last_seen) < session_timeout

\* the sequences that list every element of a set once
Orderings(S) ==
    {s \in [1..Cardinality(S) -> S] : \A x \in S : \E i \in DOMAIN s : s[i] = x}

\* metrics['crawled_urls'][bot_name].add(url); the dict is the sequence of
\* its items <<bot, set of URLs>> in the order of insertion
AddCrawled(crawled, bot, url) ==
    IF \E i \in DOMAIN crawled : crawled[i][1] = bot
    THEN [i \in DOMAIN crawled |->
            IF crawled[i][1] = bot
            THEN <<bot, crawled[i][2] \cup {url}>> ELSE crawled[i]]
    ELSE Append(crawled, <<bot, {url}>>)

\* metrics['crawl_frequency'][bot_name][url] = days; the two levels of
\* dicts are the sequence of the items <<bot, url, days>>, bots and the URLs
\* of a bot in the order of insertion
SetFrequency(frequency, bot, url, days) ==
    LET same == {i \in DOMAIN frequency :
                    frequency[i][1] = bot /\ frequency[i][2] = url}
        ofBot == {i \in DOMAIN frequency : frequency[i][1] = bot}
    IN  IF same # {}
        THEN [i \in DOMAIN frequency |->
                IF i \in same THEN <<bot, url, days>> ELSE frequency[i]]
        ELSE IF ofBot # {}
        THEN SubSeq(frequency, 1, MaxOf(ofBot)) \o << <<bot, url, days>> >>
                 \o SubSeq(frequency, MaxOf(ofBot) + 1, Len(frequency))
        ELSE Append(frequency, <<bot, url, days>>)

\* what the loop body does to them for a line with these fields; bot_name
\* is None for a user agent of no bot; timedelta.days rounds down
TrackCrawl(state, bot_name, method, url, status_code, timestamp) ==
    LET key    == <<bot_name, url>>
        crawl  == bot_name # None /\ status_code = 200 /\ method = "GET"
        again  == key \in DOMAIN state.bot_last_crawl
        days   == SecondsBetween(timestamp, state.bot_last_crawl[key]) \div 86400
    IN  [urls_by_status  |-> Inc(state.urls_by_status, <<status_code, url>>),
         crawled_urls    |-> IF crawl
                             THEN AddCrawled(state.crawled_urls, bot_name, url)
                             ELSE state.crawled_urls,
         crawl_frequency |-> IF crawl /\ again
                             THEN SetFrequency(state.crawl_frequency, bot_name,
                                               url, days)
                             ELSE state.crawl_frequency,
         bot_last_crawl  |-> IF crawl
                             THEN Put(state.bot_last_crawl, key, timestamp)
                             ELSE state.bot_last_crawl]

RECURSIVE IndexedNotFound(_, _)
\* '404 for Indexed Page': the bots in the order of insertion, the URLs of
\* a bot in the order in which its set is iterated, which the hashes of the
\* strings decide
IndexedNotFound(crawled, by_status) ==
    IF crawled = << >> THEN {<< >>}
    ELSE LET bot   == crawled[1][1]
             found == {url \in crawled[1][2] : Get(by_status, <<404, url>>) > 0}
         IN  {[i \in DOMAIN o |->
                 [issue_type |-> "404 for Indexed Page", url |-> o[i],
                  search_engine |-> bot]] \o rest :
              o \in Orderings(found),
              rest \in IndexedNotFound(Tail(crawled), by_status)}

\* 'Low Crawl Frequency': the URLs with more than 30 days between the last
\* two crawls of a bot
LowCrawlFrequency(frequency) ==
    LET late == SelectSeq(frequency, LAMBDA item : item[3] > 30)
    IN  [i \in DOMAIN late |->
            [issue_type |-> "Low Crawl Frequency", url |-> late[i][2],
             search_engine |-> late[i][1], days |-> late[i][3]]]

\* 'Non-HTTPS URLs'
NonHttps(http) ==
    IF http > 0
    THEN <<[issue_type |-> "Non-HTTPS URLs", url |-> None,
            search_engine |-> None, http |-> http]>>
    ELSE << >>

\* the values metrics['seo_issues'] can have after the scan
SeoScanIssues(state, http) ==
    {indexed \o LowCrawlFrequency(state.crawl_frequency) \o NonHttps(http) :
        indexed \in IndexedNotFound(state.crawled_urls, state.urls_by_status)}

\* One execution of the body of the loop over the lines, for a line that the
\* log pattern matches.
SeoLine(line, now) ==
    LET ip        == line.ip
        pt        == parse_time(line.time_str, now)
        timestamp == pt.timestamp
        req       == SeoReq[line.request]
        bot_name  == BotName[line.user_agent]
        continues == /\ ip \in DOMAIN ip_last_seen
                     /\ SeoContinues(timestamp, ip_last_seen[ip])
    IN  /\ analyzer = "seo"
        /\ pc = "scan"
        /\ line_count < MaxLines
        /\ now \in Clock(line.time_str)
        /\ line_count' = line_count + 1 /\ UNCHANGED unmatched
        /\ match_count' = match_count + 1
        /\ log' = Append(log, [line |-> line, now |-> now])
        /\ UNCHANGED <<mainVars, perfVars, secVars, seo_pc, seo_issues, seo_scores,
                       envVars, uaVars, contentOnlyVars, analyzer, pc,
                       trafficOnlyVars, total_hits, hourly_traffic,
                       daily_traffic, ip_sessions, top_exit_pages>>
        /\ http_vs_https' =
               IF req.scheme = "" THEN http_vs_https
               ELSE [http_vs_https EXCEPT ![req.scheme] = @ + 1]
        /\ crawl_state' = TrackCrawl(crawl_state, bot_name, req.method, req.url,
                                     line.status_code, timestamp)
        /\ bot_requests' = IF bot_name # None THEN bot_requests + 1
                           ELSE bot_requests
        /\ IF bot_name # None
           THEN UNCHANGED <<sessions, ip_last_seen, top_entry_pages>>
           ELSE /\ sessions' =
                      IF continues
                      THEN [sessions EXCEPT ![ip] = Append(@, <<timestamp, req.url>>)]
                      ELSE Put(sessions, ip, << <<timestamp, req.url>> >>)
                /\ top_entry_pages' =
                      IF ~continues /\ line.status_code = 200 /\ req.method = "GET"
                      THEN Inc(top_entry_pages, req.url) ELSE top_entry_pages
                /\ ip_last_seen' = Put(ip_last_seen, ip, timestamp)

\* The code after the loop: the last URL of every session is an exit page,
\* and the issues are listed.
SeoFinish ==
    /\ analyzer = "seo"
    /\ pc = "scan"
    /\ pc' = "done"
    /\ top_exit_pages' =
          LET exit_url(ip) == sessions[ip][Len(sessions[ip])][2]
              open == {ip \in DOMAIN sessions : Len(sessions[ip]) > 0}
          IN  [u \in {exit_url(ip) : ip \in open} |->
                 Cardinality({ip \in open : exit_url(ip) = u})]
    /\ seo_issues' \in SeoScanIssues(crawl_state, http_vs_https.http)
    /\ UNCHANGED <<mainVars, perfVars, secVars, seo_pc, bot_requests,
                   http_vs_https, seo_scores, envVars, uaVars, contentOnlyVars,
                   analyzer, log, line_count, unmatched, match_count,
                   trafficOnlyVars, total_hits, hourly_traffic, daily_traffic,
                   sessions, ip_sessions, ip_last_seen, top_entry_pages,
                   crawl_state>>

----------------------------------------------------------------------------
(* lines that the log pattern does not match *)

\* texts that every match of LOG_PATTERN contains: the blanks and the dash
\* after the first field, the bracket before the date, the bracket and the
\* quote after it, the quotes around referrer and user agent
LogPatternLiterals == {" - ", " [", "] \"", "\" \""}

\* log_pattern.search(line) returns None for a line that lacks one of them
NoMatch(raw) == \E lit \in LogPatternLiterals : ~Contains(Chars[raw], Chars[lit])

NonMatchingLines == {"garbage", "8.8.8.8 - - "}

\* a line without match counted as a matching one
UnmatchedLine_Counted(raw) ==
    /\ pc = "scan"
    /\ line_count < MaxLines
    /\ NoMatch(raw)
    /\ line_count' = line_count + 1
    /\ unmatched' = unmatched + 1
    /\ match_count' = match_count + 1
    /\ UNCHANGED <<otherVars, envVars, uaVars, contentOnlyVars, analyzer, pc, log, skipped_count, total_hits, bot_hits,
                   human_hits, hourly_traffic, daily_traffic, pages, entry_pages,
                   exit_pages, sessions, ip_sessions, paths, seoVars>>

\* One execution of the body of the loop over the lines (the same in the three
\* analyzers), for a line without match: "if match:" has no else branch.
UnmatchedLine(raw) ==
    /\ pc = "scan"
    /\ line_count < MaxLines
    /\ NoMatch(raw)
    /\ line_count' = line_count + 1
    /\ unmatched' = unmatched + 1
    /\ UNCHANGED <<otherVars, envVars, uaVars, contentOnlyVars, analyzer, pc, log, match_count, skipped_count, total_hits,
                   bot_hits, human_hits, hourly_traffic, daily_traffic, pages,
                   entry_pages, exit_pages, sessions, ip_sessions, paths, seoVars>>

----------------------------------------------------------------------------

\* the clock input of a step on a line: none, or a reading if parse_time can
\* reach its except branch
Clocks(line) ==
    IF ReadsClock(line.time_str) THEN NowValues \cup {NoClock} ELSE {NoClock}

Next ==
    \/ \E line \in TrafficLines : \E now \in Clocks(line) : TrafficLine(line, now)
    \/ TrafficFinish
    \/ \E line \in ContentLines : \E now \in Clocks(line) : ContentLine(line, now)
    \/ ContentFinish
    \/ \E line \in SeoLines : \E now \in Clocks(line) : SeoLine(line, now)
    \/ SeoFinish
    \/ \E raw \in NonMatchingLines : UnmatchedLine(raw)

vars == <<scanVars, otherVars>>

Spec == Init /\ [][Next]_vars

\* the content analyzer on logs made of the lines for the engagement figures
EngInit == Init /\ analyzer = "content"

EngNext ==
    \/ \E line \in EngagementLines : \E now \in Clocks(line) : ContentLine(line, now)
    \/ ContentFinish

EngSpec == EngInit /\ [][EngNext]_vars

\* the traffic and the content analyzer on the lines of crawlers and
\* browsers, with and without the package user_agents
HitsInit ==
    /\ analyzer \in {"traffic", "content"}
    /\ pc = "scan"
    /\ USER_AGENTS_AVAILABLE \in BOOLEAN
    /\ start_time = DateTime(2023, 10, 10, 13, 45, 0)
    /\ first_run = NoRun
    /\ ScanFresh
    /\ OthersIdle

HitsNext ==
    \/ \E line \in HitLines : \E now \in Clocks(line) : TrafficLine(line, now)
    \/ \E line \in HitLines : \E now \in Clocks(line) : ContentLine(line, now)
    \/ \E raw \in NonMatchingLines : UnmatchedLine(raw)
    \/ TrafficFinish
    \/ ContentFinish

HitsSpec == HitsInit /\ [][HitsNext]_vars

\* lines with dates that parse, before and after the times a day before the
\* scans begin
RerunLines ==
    {Line("8.8.8.8", T0, ReqA, 200, Opera),
     Line("8.8.8.8", T5, ReqB, 200, Opera),
     Line("8.8.8.8", T35, ReqA, 200, Opera),
     Line("8.8.8.8", T40, ReqCss, 200, Opera)}

\* the counts of the metrics that parse_access_log of gunlog_content.py
\* returns
ContentCounts ==
    [total_hits         |-> total_hits,
     hourly_traffic     |-> hourly_traffic,
     daily_traffic      |-> daily_traffic,
     trending_content   |-> trending_content,
     content_engagement |-> content_engagement,
     engagement_rates   |-> engagement_rates]

\* the content analyzer run twice over one file: a first scan of any lines
\* and, once it has returned, a second scan of the same lines that begins at
\* whatever the wall clock then shows
RerunInit ==
    /\ analyzer = "content"
    /\ pc = "scan"
    /\ USER_AGENTS_AVAILABLE = FALSE
    /\ start_time \in StartTimes
    /\ first_run = NoRun
    /\ ScanFresh
    /\ OthersIdle

FirstRunLine(line) ==
    /\ first_run = NoRun
    /\ ContentLine(line, NoClock)

\* the second call of parse_access_log: the counters and collections set up
\* anew
SecondRun(now) ==
    /\ analyzer = "content"
    /\ pc = "done"
    /\ first_run = NoRun
    /\ first_run' = [run |-> TRUE, log |-> log, counts |-> ContentCounts]
    /\ start_time' = now
    /\ pc' = "scan"
    /\ log' = << >>
    /\ line_count' = 0
    /\ unmatched' = 0
    /\ match_count' = 0
    /\ skipped_count' = 0
    /\ total_hits' = 0
    /\ bot_hits' = 0
    /\ human_hits' = 0
    /\ hourly_traffic' = EmptyMap
    /\ daily_traffic' = EmptyMap
    /\ pages' = EmptyMap
    /\ entry_pages' = EmptyMap
    /\ exit_pages' = EmptyMap
    /\ sessions' = EmptyMap
    /\ ip_sessions' = EmptyMap
    /\ paths' = << >>
    /\ ip_last_seen' = EmptyMap
    /\ top_entry_pages' = EmptyMap
    /\ top_exit_pages' = EmptyMap
    /\ crawl_state' = FreshCrawlState
    /\ content_engagement' = EmptyMap
    /\ engagement_rates' = EmptyMap
    /\ trending_content' = << >>
    /\ browsers' = 0
    /\ os' = 0
    /\ devices' = 0
    /\ UNCHANGED <<otherVars, analyzer, USER_AGENTS_AVAILABLE>>

SecondRunLine ==
    /\ first_run # NoRun
    /\ line_count < Len(first_run.log)
    /\ ContentLine(first_run.log[line_count + 1].line, NoClock)

RerunFinish ==
    /\ first_run # NoRun => line_count = Len(first_run.log)
    /\ ContentFinish

RerunNext ==
    \/ \E line \in RerunLines : FirstRunLine(line)
    \/ \E now \in StartTimes : SecondRun(now)
    \/ SecondRunLine
    \/ RerunFinish

RerunSpec == RerunInit /\ [][RerunNext]_vars

----------------------------------------------------------------------------
(* gunlog_traffic.py, main: the loop over the projects of the CSV *)

MaxProjects == 3

RECURSIVE Strip(_)
\* str.strip()
Strip(cs) ==
    IF cs = << >> THEN cs
    ELSE IF cs[1] \in Whitespace THEN Strip(Tail(cs))
    ELSE IF cs[Len(cs)] \in Whitespace THEN Strip(SubSeq(cs, 1, Len(cs) - 1))
    ELSE cs

\* str.replace('.', '_')
ReplaceDots(cs) == [i \in 1..Len(cs) |-> IF cs[i] = "." THEN "_" ELSE cs[i]]

\* the access logs on disk: path -> the fields of their matching lines;
\* open() fails for every other path
LogFiles ==
    "/empty.log" :> << >> @@
    "/int.log" :> <<Line("10.0.0.1", T0, ReqA, 200, Opera)>> @@
    "/a.log" :> <<Line("8.8.8.8", T0, ReqA, 200, Opera)>> @@
    "/c.log" :> <<Line("8.8.8.8", T0, ReqA, 200, Opera),
                  Line("1.1.1.1", T5, ReqB, 200, Opera)>> @@
    "/bad.log" :> <<Line("8.8.8.8", T0, ReqA, 200, Opera),
                    LineFrom("8.8.8.8", T5, ReqA, 200, Opera, BadReferrer)>>

\* the None that parse_access_log returns
NoMetrics == [none |-> TRUE]

\* parse_access_log(access_log_file) as main sees it: None if open() or the
\* body of the loop raises, else the metrics, which stand here as the lines
\* they were computed from
parse_access_log(access_log_file) ==
    IF access_log_file \notin DOMAIN LogFiles THEN NoMetrics
    ELSE LET lines == LogFiles[access_log_file]
         IN  IF \E i \in 1..Len(lines) :
                    /\ ~is_internal_ip(lines[i].ip)
                    /\ lines[i].referrer \notin {"-", ""}
                    /\ UrlparseRaises(Chars[lines[i].referrer])
             THEN NoMetrics
             ELSE [lines |-> lines]

\* metrics['total_hits'] of the metrics that parse_access_log returns
TotalHits(metrics) ==
    Cardinality({i \in 1..Len(metrics.lines) :
                    ~is_internal_ip(metrics.lines[i].ip)})

\* generate_traffic_report divides human_hits and bot_hits by total_hits while
\* it builds the page, before it opens the report file
ReportRaises(metrics) == TotalHits(metrics) = 0

\* the rows of the projects CSV, values stripped as main reads them
ProjectRows ==
    {[project |-> "c", log_file |-> "/empty.log"],
     [project |-> "c", log_file |-> "/int.log"]} \cup
    {[project |-> "a.b", log_file |-> "/a.log"],
     [project |-> "a_b", log_file |-> "/c.log"],
     [project |-> "c", log_file |-> "/c.log"],
     [project |-> "c", log_file |-> "/missing.log"],
     [project |-> "a.b", log_file |-> "/missing.log"],
     [project |-> "c", log_file |-> "/bad.log"],
     [project |-> "", log_file |-> "/a.log"],
     [project |-> "c", log_file |-> ""]}

\* generate_traffic_report and generate_plain_text_report write into the date
\* directory, shutil.copy puts a copy of both into the project directory
WriteReports(fs, project_name, metrics) ==
    LET project_dir == <<project_name>>
        date_dir    == <<project_name, "today">>
        html        == [report |-> "html", project_name |-> project_name,
                        metrics |-> metrics]
        text        == [report |-> "text", project_name |-> project_name,
                        metrics |-> metrics]
    IN  Put(Put(Put(Put(fs, date_dir \o <<"traffic_report.html">>, html),
                    date_dir \o <<"traffic_report.txt">>, text),
                project_dir \o <<"traffic_report.html">>, html),
            project_dir \o <<"traffic_report.txt">>, text)

\* the report files after the body of the loop has run for project_data
ReportProject(fs, project_data) ==
    LET project_name    == Str(ReplaceDots(Strip(Chars[project_data.project])))
        access_log_file == Str(Strip(Chars[project_data.log_file]))
        metrics         == parse_access_log(access_log_file)
    IN  IF project_name = "" \/ access_log_file = "" \/ metrics = NoMetrics
        THEN fs
        ELSE IF ReportRaises(metrics) THEN fs
        ELSE WriteReports(fs, project_name, metrics)

MainInit ==
    /\ ScanIdle
    /\ PerfIdle
    /\ ScoreIdle
    /\ RunnerIdle
    /\ projects_data \in UNION {[1..n -> ProjectRows] : n \in 0..MaxProjects}
    /\ project_index = 0
    /\ main_pc = "loop"
    /\ processed_projects = << >>
    /\ directories = {}
    /\ files = EmptyMap

\* a project without metrics ends main (return in place of continue)
ProcessProject_Return ==
    /\ main_pc = "loop"
    /\ project_index < Len(projects_data)
    /\ LET project_data    == projects_data[project_index + 1]
           project_name    == Str(ReplaceDots(Strip(Chars[project_data.project])))
           access_log_file == Str(Strip(Chars[project_data.log_file]))
       IN  /\ project_index' = project_index + 1
           /\ IF project_name = "" \/ access_log_file = ""
              THEN UNCHANGED <<main_pc, processed_projects, directories, files>>
              ELSE /\ processed_projects' =
                         Append(processed_projects, project_data.project)
                   /\ directories' = directories
                         \cup {<<project_name>>, <<project_name, "today">>}
                   /\ main_pc' =
                         LET metrics == parse_access_log(access_log_file)
                         IN  IF metrics = NoMetrics THEN "done"
                             ELSE IF ReportRaises(metrics) THEN "raised"
                             ELSE main_pc
                   /\ files' = ReportProject(files, project_data)
    /\ UNCHANGED <<mainOthers, projects_data>>

\* One execution of the body of the loop over projects_data.  An exception
\* of generate_traffic_report is caught nowhere and ends main
\* (main_pc = "raised").
ProcessProject ==
    /\ main_pc = "loop"
    /\ project_index < Len(projects_data)
    /\ LET project_data    == projects_data[project_index + 1]
           project_name    == Str(ReplaceDots(Strip(Chars[project_data.project])))
           access_log_file == Str(Strip(Chars[project_data.log_file]))
       IN  /\ project_index' = project_index + 1
           /\ IF project_name = "" \/ access_log_file = ""
              THEN UNCHANGED <<main_pc, processed_projects, directories, files>>
              ELSE /\ processed_projects' =
                         Append(processed_projects, project_data.project)
                   /\ directories' = directories
                         \cup {<<project_name>>, <<project_name, "today">>}
                   /\ main_pc' =
                         LET metrics == parse_access_log(access_log_file)
                         IN  IF metrics # NoMetrics /\ ReportRaises(metrics)
                             THEN "raised" ELSE main_pc
                   /\ files' = ReportProject(files, project_data)
    /\ UNCHANGED <<mainOthers, projects_data>>

\* The loop is exhausted: main prints its last message and returns.
MainFinish ==
    /\ main_pc = "loop"
    /\ project_index = Len(projects_data)
    /\ main_pc' = "done"
    /\ UNCHANGED <<mainOthers, projects_data, project_index, processed_projects,
                   directories, files>>

MainNext == ProcessProject \/ MainFinish

MainSpec == MainInit /\ [][MainNext]_vars

----------------------------------------------------------------------------
(* gunlog_performance.py, calculate_summary_metrics: the statistics of the  *)
(* response times.  A time is a whole number of tenths of a second.         *)

MaxSamples == 120

\* sorted(response_times): every sample goes behind the smaller ones and
\* behind the equal ones that precede it in the list (the sort is stable)
sorted(s) ==
    LET n   == Len(s)
        pos == [i \in 1..n |->
                  1 + Cardinality({j \in 1..n : s[j] < s[i]})
                    + Cardinality({j \in 1..(i - 1) : s[j] = s[i]})]
    IN  [k \in 1..n |-> s[CHOOSE i \in 1..n : pos[i] = k]]

\* the nearest-rank index ceil(n * p) - 1
PercentileIndex_NearestRank(n, num, den) == (n * num + den - 1) \div den - 1

\* int(len(response_times) * p) for p = num/den one of 0.9, 0.95, 0.99: the
\* product of floats, truncated; for these p and every n below two million
\* it is the whole part of n * num / den
PercentileIndex(n, num, den) == (n * num) \div den

\* summary['response_time_stats'] without avg and median; {} for no sample
response_time_stats(times) ==
    IF times = << >> THEN EmptyMap
    ELSE LET s == sorted(times)
             n == Len(times)
             values == {times[i] : i \in 1..n}
         IN  [min |-> MinOf(values),
              max |-> MaxOf(values),
              p90 |-> s[PercentileIndex(n, 9, 10) + 1],
              p95 |-> s[PercentileIndex(n, 95, 100) + 1],
              p99 |-> s[PercentileIndex(n, 99, 100) + 1]]

\* 0.1, 0.2, 0.5, 0.9, 1.2 and 3.0 seconds
SampleValues == {1, 2, 5, 9, 12, 30}

SixSamples == <<1, 2, 5, 9, 12, 30>>

\* n samples, all different if step and n have no common factor
Ramp(n, step) == [i \in 1..n |-> ((i * step) % n) + 1]

SampleLists ==
    UNION {[1..n -> SampleValues] : n \in 0..2}
        \cup {SixSamples, <<30, 1, 12, 2, 9, 5>>}
        \cup {Ramp(n, step) : n \in 1..MaxSamples, step \in {1, 7}}

PerfInit ==
    /\ ScanIdle
    /\ MainIdle
    /\ ScoreIdle
    /\ response_times \in SampleLists
    /\ summary = NoSummary
    /\ perf_pc = "idle"
    /\ PerfScanFresh

\* summary = calculate_summary_metrics(metrics)
CalculateSummary ==
    /\ summary = NoSummary
    /\ summary' = [computed |-> TRUE,
                   response_time_stats |-> response_time_stats(response_times)]
    /\ UNCHANGED <<scanVars, mainVars, scoreVars, response_times, perfScanVars>>

PerfNext == CalculateSummary

PerfSpec == PerfInit /\ [][PerfNext]_vars

----------------------------------------------------------------------------
(* gunlog_security.py: the security score of the two reports.  The metrics  *)
(* are the ones a scan leaves behind: every attack record has appended one  *)
(* 'Attack Detected' event, every sensitive access one 'Sensitive Resource  *)
(* Access' event.                                                           *)

MaxAttackCount == 52

MaxAuthEvents == 5

MaxSensitiveAccess == 11

Min2(a, b) == IF a <= b THEN a ELSE b

Max2(a, b) == IF a >= b THEN a ELSE b

\* sum(1 for event in metrics['security_events']
\*     if event['event_type'] == 'Authentication Failure')
AuthFailureCount(events) ==
    Cardinality({i \in 1..Len(events) :
                    events[i].event_type = "Authentication Failure"})

\* the three penalties without their caps
security_score_Uncapped(attacks, events, sensitive) ==
    LET attack_count     == Total(attacks)
        auth_failures    == AuthFailureCount(events)
        sensitive_access == Total(sensitive)
        s0 == 100
        s1 == IF attack_count > 0 THEN s0 - attack_count ELSE s0
        s2 == IF auth_failures > 0 THEN s1 - auth_failures * 5 ELSE s1
        s3 == IF sensitive_access > 0 THEN s2 - sensitive_access * 2 ELSE s2
    IN  Max2(0, s3)

\* the security_score of generate_security_report (HTML)
security_score(attacks, events, sensitive) ==
    LET attack_count     == Total(attacks)
        auth_failures    == AuthFailureCount(events)
        sensitive_access == Total(sensitive)
        s0 == 100
        s1 == IF attack_count > 0 THEN s0 - Min2(50, attack_count) ELSE s0
        s2 == IF auth_failures > 0
              THEN s1 - Min2(20, auth_failures * 5) ELSE s1
        s3 == IF sensitive_access > 0
              THEN s2 - Min2(20, sensitive_access * 2) ELSE s2
    IN  Max2(0, s3)

\* the security_score of generate_plain_text_report
text_security_score(attacks, events, sensitive) ==
    LET attack_count     == Total(attacks)
        auth_failures    == AuthFailureCount(events)
        sensitive_access == Total(sensitive)
        s0 == 100
        s1 == IF attack_count > 0 THEN s0 - Min2(50, attack_count) ELSE s0
        s2 == IF auth_failures > 0
              THEN s1 - Min2(20, auth_failures * 5) ELSE s1
        s3 == IF sensitive_access > 0
              THEN s2 - Min2(20, sensitive_access * 2) ELSE s2
    IN  Max2(0, s3)

\* a Counter with the given counts, without the keys whose count is 0
CounterOf(counts) ==
    [k \in {x \in DOMAIN counts : counts[x] > 0} |-> counts[k]]

\* n events of the given type
SecurityEvents(n, type) == [i \in 1..n |-> [event_type |-> type]]

\* the metrics after a scan of admin requests for /admin, login requests
\* for /login, refused requests that make auth events, then sql records
\* matching 'SQL Injection', xss of them matching 'XSS Attack' too.  A
\* request for /admin also matches the pattern of 'Server Scan': it adds an
\* 'Attack Detected' event after its 'Sensitive Resource Access' event
SecurityMetrics(sql, xss, auth, admin, login) ==
    [attack_types |->
         CounterOf(("SQL Injection" :> sql) @@ ("XSS Attack" :> xss)
                       @@ ("Server Scan" :> admin)),
     security_events |->
         [i \in 1..(2 * admin) |->
             [event_type |-> IF i % 2 = 1 THEN "Sensitive Resource Access"
                             ELSE "Attack Detected"]]
             \o SecurityEvents(login, "Sensitive Resource Access")
             \o SecurityEvents(auth, "Authentication Failure")
             \o SecurityEvents(sql, "Attack Detected"),
     sensitive_urls_accessed |->
         CounterOf(("/admin" :> admin) @@ ("/login" :> login))]

ScoreInit ==
    /\ ScanIdle
    /\ MainIdle
    /\ PerfIdle
    /\ SeoReportIdle
    /\ sec_pc = "parsed"
    /\ \E sql \in 0..MaxAttackCount, xss \in {0, 1}, auth \in 0..MaxAuthEvents,
          admin \in 0..MaxSensitiveAccess, login \in {0, 3} :
           LET metrics == SecurityMetrics(sql, Min2(xss, sql), auth, admin, login)
           IN  /\ attack_types = metrics.attack_types
               /\ security_events = metrics.security_events
               /\ sensitive_urls_accessed = metrics.sensitive_urls_accessed
    /\ security_scores = EmptyMap
    /\ SecScanFresh

\* html_report_file = generate_security_report(project_name, metrics, ...)
GenerateSecurityReport ==
    /\ sec_pc = "parsed"
    /\ security_scores' = Put(security_scores, "html",
            security_score(attack_types, security_events,
                           sensitive_urls_accessed))
    /\ sec_pc' = "html"
    /\ UNCHANGED <<scanVars, mainVars, perfVars, seoReportVars, attack_types,
                   security_events, sensitive_urls_accessed, secScanVars>>

\* text_report_file = generate_plain_text_report(project_name, metrics, ...)
GeneratePlainTextReport ==
    /\ sec_pc = "html"
    /\ security_scores' = Put(security_scores, "text",
            text_security_score(attack_types, security_events,
                                sensitive_urls_accessed))
    /\ sec_pc' = "done"
    /\ UNCHANGED <<scanVars, mainVars, perfVars, seoReportVars, attack_types,
                   security_events, sensitive_urls_accessed, secScanVars>>

ScoreNext ==
    \/ GenerateSecurityReport
    \/ GeneratePlainTextReport

ScoreSpec == ScoreInit /\ [][ScoreNext]_vars

----------------------------------------------------------------------------
(* gunlog_seo.py: the SEO score of the two reports *)

MaxSeoIssues == 7

MaxUrlCount == 6

MaxBotRequests == 101

\* the counts of bot requests, up to both sides of the two thresholds
BotRequestCounts == 0..MaxBotRequests

\* the issue penalty without its cap
seo_score_Uncapped(issues, bots, urls) ==
    LET s0 == 100
        s1 == IF issues # << >> THEN s0 - Len(issues) * 5 ELSE s0
        s2 == IF bots = 0 THEN s1 - 20
              ELSE IF bots < 100 THEN s1 - 10 ELSE s1
        total == IF urls.http + urls.https # 0
                 THEN urls.http + urls.https ELSE 1
        s3 == IF urls.http > 0
              THEN s2 - Min2(20, (urls.http * 20) \div total) ELSE s2
    IN  Max2(0, Min2(100, s3))

\* the seo_score of generate_seo_report (HTML).  http_ratio * 20 is a
\* product of floats; truncated it is the whole part of 20 * http / total
\* (compared for all counts below 1500)
seo_score(issues, bots, urls) ==
    LET s0 == 100
        s1 == IF issues # << >> THEN s0 - Min2(30, Len(issues) * 5) ELSE s0
        s2 == IF bots = 0 THEN s1 - 20
              ELSE IF bots < 100 THEN s1 - 10 ELSE s1
        total == IF urls.http + urls.https # 0
                 THEN urls.http + urls.https ELSE 1
        s3 == IF urls.http > 0
              THEN s2 - Min2(20, (urls.http * 20) \div total) ELSE s2
    IN  Max2(0, Min2(100, s3))

\* the seo_score of generate_plain_text_report
text_seo_score(issues, bots, urls) ==
    LET s0 == 100
        s1 == IF issues # << >> THEN s0 - Min2(30, Len(issues) * 5) ELSE s0
        s2 == IF bots = 0 THEN s1 - 20
              ELSE IF bots < 100 THEN s1 - 10 ELSE s1
        total == IF urls.http + urls.https # 0
                 THEN urls.http + urls.https ELSE 1
        s3 == IF urls.http > 0
              THEN s2 - Min2(20, (urls.http * 20) \div total) ELSE s2
    IN  Max2(0, Min2(100, s3))

\* the issues after a scan, in the order of the three blocks that append
\* them: a '404 for Indexed Page' issue for each of not_found crawled URLs, a
\* 'Low Crawl Frequency' issue for each of late URLs crawled again after more
\* than 30 days, then the 'Non-HTTPS URLs' issue if a URL started with http://
SeoIssues(not_found, late, http) ==
    [i \in 1..not_found |-> [issue_type |-> "404 for Indexed Page"]]
        \o [i \in 1..late |-> [issue_type |-> "Low Crawl Frequency"]]
        \o (IF http > 0 THEN <<[issue_type |-> "Non-HTTPS URLs"]>> ELSE << >>)

\* the fewest bot requests that leave these issues: two crawls of a URL by a
\* bot for each 'Low Crawl Frequency' issue, one crawl for each other URL
\* with a '404 for Indexed Page' issue
CrawlsNeeded(not_found, late) == 2 * late + Max2(0, not_found - late)

SeoScoreInit ==
    /\ ScanIdle
    /\ MainIdle
    /\ PerfIdle
    /\ SecIdle
    /\ seo_pc = "parsed"
    /\ bot_requests \in BotRequestCounts
    /\ http_vs_https \in [http : 0..MaxUrlCount, https : 0..MaxUrlCount]
    /\ \E not_found \in 0..(MaxSeoIssues - 1) :
          \E late \in 0..(MaxSeoIssues - 1 - not_found) :
              /\ bot_requests >= CrawlsNeeded(not_found, late)
              /\ seo_issues = SeoIssues(not_found, late, http_vs_https.http)
    /\ seo_scores = EmptyMap

\* html_report_file = generate_seo_report(project_name, metrics, date_dir)
GenerateSeoReport ==
    /\ seo_pc = "parsed"
    /\ seo_scores' = Put(seo_scores, "html",
                         seo_score(seo_issues, bot_requests, http_vs_https))
    /\ seo_pc' = "html"
    /\ UNCHANGED <<scanVars, mainVars, perfVars, secVars, seo_issues,
                   bot_requests, http_vs_https>>

\* text_report_file = generate_plain_text_report(project_name, metrics, ...)
GenerateSeoTextReport ==
    /\ seo_pc = "html"
    /\ seo_scores' = Put(seo_scores, "text",
                         text_seo_score(seo_issues, bot_requests, http_vs_https))
    /\ seo_pc' = "done"
    /\ UNCHANGED <<scanVars, mainVars, perfVars, secVars, seo_issues,
                   bot_requests, http_vs_https>>

SeoScoreNext ==
    \/ GenerateSeoReport
    \/ GenerateSeoTextReport

SeoScoreSpec == SeoScoreInit /\ [][SeoScoreNext]_vars

----------------------------------------------------------------------------
(* the texts of the security analyzer: patterns, prefixes, requests *)

\* BEGIN THREAT STRING TABLE
ThreatChars ==
     "union" :> <<"u", "n", "i", "o", "n">> @@
     "select" :> <<"s", "e", "l", "e", "c", "t">> @@
     "from" :> <<"f", "r", "o", "m">> @@
     "1=1" :> <<"1", "=", "1">> @@
     "or" :> <<"o", "r">> @@
     "drop" :> <<"d", "r", "o", "p">> @@
     "table" :> <<"t", "a", "b", "l", "e">> @@
     "<script" :> <<"<", "s", "c", "r", "i", "p", "t">> @@
     "javascript:" :> <<"j", "a", "v", "a", "s", "c", "r", "i", "p", "t", ":">> @@
     "onerror=" :> <<"o", "n", "e", "r", "r", "o", "r", "=">> @@
     "onload=" :> <<"o", "n", "l", "o", "a", "d", "=">> @@
     "onclick=" :> <<"o", "n", "c", "l", "i", "c", "k", "=">> @@
     "%2f" :> <<"%", "2", "f">> @@
     "/etc/passwd" :> <<"/", "e", "t", "c", "/", "p", "a", "s", "s", "w", "d">> @@
     "/admin" :> <<"/", "a", "d", "m", "i", "n">> @@
     "/wp-admin" :> <<"/", "w", "p", "-", "a", "d", "m", "i", "n">> @@
     "/phpmyadmin" :> <<"/", "p", "h", "p", "m", "y", "a", "d", "m", "i", "n">> @@
     "/.git" :> <<"/", ".", "g", "i", "t">> @@
     "/.env" :> <<"/", ".", "e", "n", "v">> @@
     "sqlmap" :> <<"s", "q", "l", "m", "a", "p">> @@
     "nikto" :> <<"n", "i", "k", "t", "o">> @@
     "nmap" :> <<"n", "m", "a", "p">> @@
     "gobuster" :> <<"g", "o", "b", "u", "s", "t", "e", "r">> @@
     "dirbuster" :> <<"d", "i", "r", "b", "u", "s", "t", "e", "r">> @@
     "GET /x?id=1 UNION SELECT * FROM users" :> <<"G", "E", "T", " ", "/", "x", "?", "i", "d", "=", "1", " ", "U", "N", "I", "O", "N", " ", "S", "E", "L", "E", "C", "T", " ", "*", " ", "F", "R", "O", "M", " ", "u", "s", "e", "r", "s">> @@
     "GET /about HTTP/1.1" :> <<"G", "E", "T", " ", "/", "a", "b", "o", "u", "t", " ", "H", "T", "T", "P", "/", "1", ".", "1">> @@
     "GET /wp-admin?q=<script HTTP/1.1" :> <<"G", "E", "T", " ", "/", "w", "p", "-", "a", "d", "m", "i", "n", "?", "q", "=", "<", "s", "c", "r", "i", "p", "t", " ", "H", "T", "T", "P", "/", "1", ".", "1">> @@
     "http://x/wp-admin" :> <<"h", "t", "t", "p", ":", "/", "/", "x", "/", "w", "p", "-", "a", "d", "m", "i", "n">> @@
     "/x?id=1" :> <<"/", "x", "?", "i", "d", "=", "1">> @@
     "/about" :> <<"/", "a", "b", "o", "u", "t">> @@
     "/wp-admin?q=<script" :> <<"/", "w", "p", "-", "a", "d", "m", "i", "n", "?", "q", "=", "<", "s", "c", "r", "i", "p", "t">> @@
     "GET /about" :> <<"G", "E", "T", " ", "/", "a", "b", "o", "u", "t">> @@
     "UNION" :> <<"U", "N", "I", "O", "N">> @@
     "SELECT" :> <<"S", "E", "L", "E", "C", "T">> @@
     "*" :> <<"*">> @@
     "FROM" :> <<"F", "R", "O", "M">> @@
     "users" :> <<"u", "s", "e", "r", "s">> @@
     "Mozilla/5.0" :> <<"M", "o", "z", "i", "l", "l", "a", "/", "5", ".", "0">> @@
     "GET /a?x=../onload=1=1 HTTP/1.1" :> <<"G", "E", "T", " ", "/", "a", "?", "x", "=", ".", ".", "/", "o", "n", "l", "o", "a", "d", "=", "1", "=", "1", " ", "H", "T", "T", "P", "/", "1", ".", "1">> @@
     "/a?x=../onload=1=1" :> <<"/", "a", "?", "x", "=", ".", ".", "/", "o", "n", "l", "o", "a", "d", "=", "1", "=", "1">> @@
     "/login" :> <<"/", "l", "o", "g", "i", "n">> @@
     "/wp-login" :> <<"/", "w", "p", "-", "l", "o", "g", "i", "n">> @@
     "/administrator" :> <<"/", "a", "d", "m", "i", "n", "i", "s", "t", "r", "a", "t", "o", "r">> @@
     "/myadmin" :> <<"/", "m", "y", "a", "d", "m", "i", "n">> @@
     "/config" :> <<"/", "c", "o", "n", "f", "i", "g">> @@
     "/wp-config" :> <<"/", "w", "p", "-", "c", "o", "n", "f", "i", "g">> @@
     "/backup" :> <<"/", "b", "a", "c", "k", "u", "p">> @@
     "/db" :> <<"/", "d", "b">> @@
     "/database" :> <<"/", "d", "a", "t", "a", "b", "a", "s", "e">> @@
     "10." :> <<"1", "0", ".">> @@
     "172.16." :> <<"1", "7", "2", ".", "1", "6", ".">> @@
     "172.17." :> <<"1", "7", "2", ".", "1", "7", ".">> @@
     "172.18." :> <<"1", "7", "2", ".", "1", "8", ".">> @@
     "172.19." :> <<"1", "7", "2", ".", "1", "9", ".">> @@
     "172.20." :> <<"1", "7", "2", ".", "2", "0", ".">> @@
     "172.21." :> <<"1", "7", "2", ".", "2", "1", ".">> @@
     "172.22." :> <<"1", "7", "2", ".", "2", "2", ".">> @@
     "172.23." :> <<"1", "7", "2", ".", "2", "3", ".">> @@
     "172.24." :> <<"1", "7", "2", ".", "2", "4", ".">> @@
     "172.25." :> <<"1", "7", "2", ".", "2", "5", ".">> @@
     "172.26." :> <<"1", "7", "2", ".", "2", "6", ".">> @@
     "172.27." :> <<"1", "7", "2", ".", "2", "7", ".">> @@
     "172.28." :> <<"1", "7", "2", ".", "2", "8", ".">> @@
     "172.29." :> <<"1", "7", "2", ".", "2", "9", ".">> @@
     "172.30." :> <<"1", "7", "2", ".", "3", "0", ".">> @@
     "172.31." :> <<"1", "7", "2", ".", "3", "1", ".">> @@
     "192.168." :> <<"1", "9", "2", ".", "1", "6", "8", ".">> @@
     "127." :> <<"1", "2", "7", ".">> @@
     "localhost" :> <<"l", "o", "c", "a", "l", "h", "o", "s", "t">> @@
     "POST /a HTTP/1.1" :> <<"P", "O", "S", "T", " ", "/", "a", " ", "H", "T", "T", "P", "/", "1", ".", "1">> @@
     "12" :> <<"1", "2">> @@
     "13" :> <<"1", "3">> @@
     "0.5" :> <<"0", ".", "5">> @@
     "1.5" :> <<"1", ".", "5">> @@
     "10/Oct/2023" :> <<"1", "0", "/", "O", "c", "t", "/", "2", "0", "2", "3">> @@
     "00 +0200" :> <<"0", "0", " ", "+", "0", "2", "0", "0">> @@
     "35" :> <<"3", "5">> @@
     "00" :> <<"0", "0">> @@
     "5" :> <<"5">> @@
     "1" :> <<"1">> @@
     "05" :> <<"0", "5">> @@
     "15" :> <<"1", "5">> @@
     "GET /admin/config HTTP/1.1" :> <<"G", "E", "T", " ", "/", "a", "d", "m", "i", "n", "/", "c", "o", "n", "f", "i", "g", " ", "H", "T", "T", "P", "/", "1", ".", "1">> @@
     "/admin/config" :> <<"/", "a", "d", "m", "i", "n", "/", "c", "o", "n", "f", "i", "g">> @@
     "GET /administrator HTTP/1.1" :> <<"G", "E", "T", " ", "/", "a", "d", "m", "i", "n", "i", "s", "t", "r", "a", "t", "o", "r", " ", "H", "T", "T", "P", "/", "1", ".", "1">>
\* END THREAT STRING TABLE

\* the characters of every text of the model
Text == Chars @@ ThreatChars

TextOf(cs) == CHOOSE s \in DOMAIN Text : Text[s] = cs

----------------------------------------------------------------------------
(* gunlog_security.py, detect_threats.  A pattern of THREAT_PATTERNS is the  *)
(* sequence of its atoms: a character, "." (any character), an escaped     *)
(* character, or one of the repeated classes below.  Every pattern starts  *)
(* with (?i), so letters match in either case.                              *)

\* the characters \s matches
RegexSpace == Whitespace

RepeatedAtoms == {"\\s+", "\\s*", ".+", "[a-z]+"}

\* the character ch belongs to the class that the repeated atom repeats
InClass(atom, ch) ==
    CASE atom \in {"\\s+", "\\s*"} -> ch \in RegexSpace
      [] atom = ".+" -> ch # "\n"
      [] atom = "[a-z]+" -> \E i \in 1..26 : LowerCase[i] = LowerChar(ch)

\* the fewest characters a repeated atom takes
MinRepeat(atom) == IF atom = "\\s*" THEN 0 ELSE 1

\* a single atom matches the character ch
AtomMatches(atom, ch) ==
    CASE atom = "." -> ch # "\n"
      [] atom = "\\." -> ch = "."
      [] atom = "\\|" -> ch = "|"
      [] OTHER -> LowerChar(atom) = LowerChar(ch)

\* the positions at which a match of atom can end (the index of the next
\* character to read) when it starts at one of the positions in starts
AtomEnds(atom, cs, starts) ==
    IF atom \in RepeatedAtoms
    THEN {q \in 1..(Len(cs) + 1) :
            \E p \in starts :
                /\ q >= p + MinRepeat(atom)
                /\ \A j \in p..(q - 1) : InClass(atom, cs[j])}
    ELSE {p + 1 : p \in {x \in starts : x <= Len(cs) /\ AtomMatches(atom, cs[x])}}

RECURSIVE MatchEnds(_, _, _)
MatchEnds(atoms, cs, starts) ==
    IF atoms = << >> THEN starts
    ELSE MatchEnds(Tail(atoms), cs, AtomEnds(Head(atoms), cs, starts))

\* re.search(pattern, target) finds a match
re_search(pattern, target) ==
    MatchEnds(pattern, Text[target], 1..(Len(Text[target]) + 1)) # {}

ThreatTypes ==
    <<"SQL Injection", "XSS Attack", "Path Traversal", "Command Injection",
      "Server Scan", "Suspicious User Agent">>

THREAT_PATTERNS ==
    ("SQL Injection" :>
        <<Text["union"] \o <<"\\s+">> \o Text["select"],
          Text["select"] \o <<".+">> \o Text["from"],
          Text["1=1"],
          Text["or"] \o <<"\\s+", "1", "\\s*", "=">>,
          Text["drop"] \o <<"\\s+">> \o Text["table"]>>)
    @@ ("XSS Attack" :>
        <<Text["<script"], Text["javascript:"], Text["onerror="],
          Text["onload="], Text["onclick="]>>)
    @@ ("Path Traversal" :>
        <<<<"\\.", "\\.", "/">>,
          <<"\\.", "\\.">> \o Text["%2f"],
          Text["/etc/passwd"]>>)
    @@ ("Command Injection" :>
        <<<<";", "\\s*", "[a-z]+">>,
          <<"\\|", "\\s*", "[a-z]+">>>>)
    @@ ("Server Scan" :>
        <<Text["/admin"], Text["/wp-admin"], Text["/phpmyadmin"],
          Text["/.git"], Text["/.env"]>>)
    @@ ("Suspicious User Agent" :>
        <<Text["sqlmap"], Text["nikto"], Text["nmap"], Text["gobuster"],
          Text["dirbuster"]>>)

InList(x, list) == \E i \in 1..Len(list) : list[i] = x

\* the loop over the patterns of a category goes on after a match
PatternLoopBreaks_Never(threat_type, detected_threats) == FALSE

\* if threat_type in detected_threats: break
PatternLoopBreaks(threat_type, detected_threats) ==
    InList(threat_type, detected_threats)

\* the loop over the targets: the first target the pattern is found in
\* appends the category and ends the loop
TargetLoop(threat_type, pattern, targets, detected_threats) ==
    IF \E k \in 1..Len(targets) : re_search(pattern, targets[k])
    THEN Append(detected_threats, threat_type)
    ELSE detected_threats

RECURSIVE PatternLoop(_, _, _, _)
\* the loop over the patterns of one category
PatternLoop(threat_type, patterns, targets, detected_threats) ==
    IF patterns = << >> THEN detected_threats
    ELSE LET detected == TargetLoop(threat_type, Head(patterns), targets,
                                    detected_threats)
         IN  IF PatternLoopBreaks(threat_type, detected)
             THEN detected
             ELSE PatternLoop(threat_type, Tail(patterns), targets, detected)

RECURSIVE TypeLoop(_, _, _)
\* the loop over THREAT_PATTERNS.items()
TypeLoop(types, targets, detected_threats) ==
    IF types = << >> THEN detected_threats
    ELSE TypeLoop(Tail(types), targets,
                  PatternLoop(Head(types), THREAT_PATTERNS[Head(types)],
                              targets, detected_threats))

\* detect_threats(request, user_agent, referrer): the list of threat types
detect_threats(request, user_agent, referrer) ==
    LET targets == <<request, user_agent,
                     IF referrer # "-" THEN referrer ELSE "">>
    IN  TypeLoop(ThreatTypes, targets, << >>)

----------------------------------------------------------------------------
(* gunlog_security.py, parse_access_log *)

MaxSecLines == 4

SqlRequest == "GET /x?id=1 UNION SELECT * FROM users"

AboutRequest == "GET /about HTTP/1.1"

\* requests with and without threat patterns, from a browser, from Opera and
\* from scanners, one of them from a private address, two refused, two for
\* URLs in which two of the sensitive resources occur
SecurityLines ==
    {LineFrom("8.8.8.8", T5, "GET /admin/config HTTP/1.1", 200, Opera, "-"),
     LineFrom("8.8.8.8", T5, "GET /administrator HTTP/1.1", 200, Opera, "-")}
    \cup
    {LineFrom("8.8.8.8", T0, SqlRequest, 200, Opera, "-"),
     LineFrom("8.8.8.8", T0, SqlRequest, 200, Browser, "-"),
     LineFrom("8.8.8.8", T5, AboutRequest, 200, Browser, "-"),
     LineFrom("8.8.8.8", T5, AboutRequest, 200, Opera, "-"),
     LineFrom("1.1.1.1", T0, "GET /wp-admin?q=<script HTTP/1.1", 403, "sqlmap",
              "http://x/wp-admin"),
     LineFrom("10.0.0.1", T0, SqlRequest, 200, Opera, "-"),
     LineFrom("8.8.8.8", T5, ReqA, 401, Opera, "-"),
     LineFrom("8.8.8.8", T0, "GET /a?x=../onload=1=1 HTTP/1.1", 200, "nmap", "-")}

\* the line of which a log repeats a run
BurstRecord == LineFrom("8.8.8.8", T0, AboutRequest, 200, Opera, "-")

\* the lines that follow the run: the same client 59 seconds, 60 seconds and
\* five minutes later and 25 minutes earlier, and another client
TailLines ==
    {LineFrom("8.8.8.8", T0s59, AboutRequest, 200, Opera, "-"),
     LineFrom("8.8.8.8", T1, AboutRequest, 200, Opera, "-"),
     LineFrom("8.8.8.8", T5, AboutRequest, 200, Opera, "-"),
     LineFrom("8.8.8.8", T1235, AboutRequest, 200, Opera, "-"),
     LineFrom("1.1.1.1", T0, AboutRequest, 200, Opera, "-")}

SecurityInputs == SecurityLines \cup {BurstRecord} \cup TailLines

SECURITY_STATUS_CODES == {400, 401, 403, 405, 406, 429}

private_prefixes ==
    <<"10.", "172.16.", "172.17.", "172.18.", "172.19.", "172.20.", "172.21.",
      "172.22.", "172.23.", "172.24.", "172.25.", "172.26.", "172.27.",
      "172.28.", "172.29.", "172.30.", "172.31.", "192.168.", "127.",
      "localhost">>

\* s.startswith(prefix)
startswith(cs, prefix) ==
    Len(cs) >= Len(prefix) /\ SubSeq(cs, 1, Len(prefix)) = prefix

is_private_ip(ip) ==
    \E i \in 1..Len(private_prefixes) :
        startswith(Text[ip], Text[private_prefixes[i]])

sensitive_resources ==
    <<"/admin", "/wp-admin", "/login", "/wp-login", "/administrator",
      "/phpmyadmin", "/myadmin", "/.git", "/.env", "/config", "/wp-config",
      "/backup", "/db", "/database">>

\* method and url as the loop body takes them from request.split(' ')
SecurityRequest(request) ==
    LET parts == Split(Text[request], " ")
        spaced == Contains(Text[request], <<" ">>)
    IN  [spaced |-> spaced,
         method |-> IF spaced THEN TextOf(parts[1]) ELSE "",
         url    |-> IF spaced /\ Len(parts) > 1 THEN TextOf(parts[2]) ELSE ""]

PrivateIp == [ip \in {l.ip : l \in SecurityInputs} |-> is_private_ip(ip)]

SecReq == [r \in {l.request : l \in SecurityInputs} |-> SecurityRequest(r)]

\* the resources of sensitive_resources that occur in the url, in list order
SensitiveIn ==
    [u \in {SecReq[r].url : r \in DOMAIN SecReq} |->
        SelectSeq(sensitive_resources,
                  LAMBDA resource : Contains(Text[u], Text[resource]))]

Threats ==
    [l \in SecurityInputs |-> detect_threats(l.request, l.user_agent, l.referrer)]

RECURSIVE IncAll(_, _)
\* c[k] += 1 for every k of the list keys
IncAll(c, keys) ==
    IF keys = << >> THEN c ELSE IncAll(Inc(c, Head(keys)), Tail(keys))

\* d[k1][k2] += 1 for a defaultdict of Counters
IncIn(d, k1, k2) ==
    Put(d, k1, Inc(IF k1 \in DOMAIN d THEN d[k1] ELSE EmptyMap, k2))

RECURSIVE IncAllIn(_, _, _)
\* d[k][k2] += 1 for every k of the list keys
IncAllIn(d, keys, k2) ==
    IF keys = << >> THEN d ELSE IncAllIn(IncIn(d, Head(keys), k2), Tail(keys), k2)

\* d[k].append(v) for a defaultdict of lists
AppendIn(d, k, v) ==
    Put(d, k, Append(IF k \in DOMAIN d THEN d[k] ELSE << >>, v))

\* the last n elements of a list
LastN(list, n) ==
    IF Len(list) > n THEN SubSeq(list, Len(list) - n + 1, Len(list)) ELSE list

\* an entry of metrics['security_events'], without its timestamp text
SecurityEvent(event_type, details, ip, url, line) ==
    [event_type |-> event_type, details |-> details, ip |-> ip, url |-> url,
     user_agent |-> line.user_agent, status_code |-> line.status_code]

SecInit ==
    /\ ScanIdle
    /\ MainIdle
    /\ PerfIdle
    /\ SeoReportIdle
    /\ sec_pc = "scan"
    /\ attack_types = EmptyMap
    /\ security_events = << >>
    /\ sensitive_urls_accessed = EmptyMap
    /\ security_scores = EmptyMap
    /\ SecScanFresh

\* the test with > in place of >=
ManyAuthFailures_MoreThan3(n) == n > 3

\* ip_auth_failures[ip] >= 3
ManyAuthFailures(n) == n >= 3

\* the test with >= in place of ==
FirstExcess_Every(n) == n >= 1

\* metrics['high_frequency_ips'][ip] == 1
FirstExcess(n) == n = 1

\* One execution of the body of the loop over the lines, for a line that the
\* log pattern matches.
SecurityRecord(line, now) ==
    LET ip          == line.ip
        status_code == line.status_code
        request     == line.request
        user_agent  == line.user_agent
        referrer    == line.referrer
        pt          == parse_time(line.time_str, now)
        timestamp   == pt.timestamp
        hour        == pt.hour
        req         == SecReq[request]
        url         == req.url
        \* authentication failures
        refused     == status_code \in {401, 403}
        failures    == IF refused THEN Inc(ip_auth_failures, ip)
                       ELSE ip_auth_failures
        auth_events == IF refused /\ ManyAuthFailures(failures[ip])
                       THEN <<SecurityEvent("Authentication Failure",
                                            failures[ip], ip, url, line)>>
                       ELSE << >>
        \* sensitive resources
        resources   == SensitiveIn[url]
        res_events  == [i \in 1..Len(resources) |->
                          SecurityEvent("Sensitive Resource Access",
                                        resources[i], ip, url, line)]
        \* request frequency
        times       == LastN(Append(IF ip \in DOMAIN ip_request_times
                                    THEN ip_request_times[ip] ELSE << >>,
                                    timestamp), 100)
        recent_requests ==
            {k \in 1..Len(times) : SecondsBetween(timestamp, times[k]) < 60}
        frequent    == Cardinality(recent_requests) > 60
        high        == IF frequent THEN Inc(sec_metrics.high_frequency_ips, ip)
                       ELSE sec_metrics.high_frequency_ips
        rate_events == IF frequent /\ FirstExcess(high[ip])
                       THEN <<SecurityEvent("Rate Limit Exceeded",
                                            Cardinality(recent_requests),
                                            ip, url, line)>>
                       ELSE << >>
        \* threats
        threats     == Threats[line]
        hours       == [i \in 1..Len(threats) |-> hour]
        ips         == [i \in 1..Len(threats) |-> ip]
        suspicious  == [request |-> request, threat_types |-> threats,
                        status_code |-> status_code, user_agent |-> user_agent,
                        referrer |-> referrer]
        threat_events == IF threats # << >>
                         THEN <<SecurityEvent("Attack Detected", threats, ip,
                                              url, line)>>
                         ELSE << >>
        recommendations ==
            (IF auth_events # << >>
             THEN {<<"Block IP", ip, "Multiple auth failures">>} ELSE {})
            \cup (IF rate_events # << >>
                  THEN {<<"Rate limit IP", ip>>} ELSE {})
            \cup (IF InList("SQL Injection", threats)
                     \/ InList("XSS Attack", threats)
                  THEN {<<"Block IP", ip, "Attack attempts">>} ELSE {})
    IN  /\ sec_pc = "scan"
        /\ (now # NoClock) = (~PrivateIp[ip] /\ ReadsClock(line.time_str))
        /\ sec_line_count' = sec_line_count + 1
        /\ sec_match_count' = sec_match_count + 1
        /\ sec_log' = Append(sec_log, [line |-> line, now |-> now])
        /\ UNCHANGED <<scanVars, mainVars, perfVars, seoReportVars, sec_pc,
                       security_scores>>
        /\ IF PrivateIp[ip]
           THEN /\ now = NoClock
                /\ sec_metrics' = [sec_metrics EXCEPT !.total_requests = @ + 1]
                /\ UNCHANGED <<attack_types, security_events,
                               sensitive_urls_accessed, ip_auth_failures,
                               ip_request_times>>
           ELSE /\ now \in Clock(line.time_str)
                /\ ip_auth_failures' = failures
                /\ ip_request_times' = Put(ip_request_times, ip, times)
                /\ sensitive_urls_accessed' =
                       IncAll(sensitive_urls_accessed,
                              [i \in 1..Len(resources) |-> url])
                /\ attack_types' = IncAll(attack_types, threats)
                /\ security_events' =
                       security_events \o auth_events \o res_events
                           \o rate_events \o threat_events
                /\ sec_metrics' =
                       [sec_metrics EXCEPT
                          !.total_requests = @ + 1,
                          !.http_methods =
                              IF req.spaced THEN Inc(@, req.method) ELSE @,
                          !.status_codes = Inc(@, status_code),
                          !.security_status_codes =
                              IF status_code \in SECURITY_STATUS_CODES
                              THEN Inc(@, status_code) ELSE @,
                          !.high_frequency_ips = high,
                          !.firewall_recommendations = @ \cup recommendations,
                          !.attack_vectors = IncAllIn(@, threats, url),
                          !.top_attack_sources = IncAll(@, ips),
                          !.hourly_attacks =
                              IF threats # << >>
                              THEN Put(@, hour,
                                       IncAll(IF hour \in DOMAIN @ THEN @[hour]
                                              ELSE EmptyMap, threats))
                              ELSE @,
                          !.attack_time_distribution = IncAll(@, hours),
                          !.suspicious_ips =
                              IF threats # << >>
                              THEN AppendIn(@, ip, suspicious) ELSE @,
                          !.suspicious_user_agents =
                              IF threats # << >>
                              THEN Inc(@, user_agent) ELSE @,
                          !.suspicious_requests =
                              IF threats # << >> /\ Len(@) < 100
                              THEN Append(@, suspicious) ELSE @]

\* a scan of at most MaxSecLines lines
SecurityLine(line, now) ==
    /\ sec_line_count < MaxSecLines
    /\ SecurityRecord(line, now)

\* One execution of the loop body for a line without match
SecurityUnmatchedLine(raw) ==
    /\ sec_pc = "scan"
    /\ sec_line_count < MaxSecLines
    /\ NoMatch(raw)
    /\ sec_line_count' = sec_line_count + 1
    /\ UNCHANGED <<scanVars, mainVars, perfVars, seoReportVars, sec_pc,
                   attack_types, security_events, sensitive_urls_accessed,
                   security_scores, sec_log, sec_match_count, ip_auth_failures,
                   ip_request_times, sec_metrics>>

\* the end of the file: return metrics
SecurityFinish ==
    /\ sec_pc = "scan"
    /\ sec_pc' = "parsed"
    /\ UNCHANGED <<scanVars, mainVars, perfVars, seoReportVars, attack_types,
                   security_events, sensitive_urls_accessed, security_scores,
                   secScanVars>>

SecNext ==
    \/ \E line \in SecurityLines :
          \E now \in Clocks(line) :
          SecurityLine(line, now)
    \/ \E raw \in NonMatchingLines : SecurityUnmatchedLine(raw)
    \/ SecurityFinish
    \/ GenerateSecurityReport
    \/ GeneratePlainTextReport

SecSpec == SecInit /\ [][SecNext]_vars

\* Scans of a log in which one client repeats a request up to MaxBurst times
\* within the same second, followed by up to MaxBurstTail other lines.
MaxBurst == 101

MaxBurstTail == 2

\* the lines read so far that follow the run
TailRead == {k \in 1..Len(sec_log) : sec_log[k].line # BurstRecord}

\* the next line of the log: one more of the run while nothing else has been
\* read, or one of the lines that follow it
BurstLine(line) ==
    /\ IF line = BurstRecord
       THEN TailRead = {} /\ sec_line_count < MaxBurst
       ELSE Cardinality(TailRead) < MaxBurstTail
    /\ SecurityRecord(line, NoClock)

BurstNext ==
    \/ \E line \in {BurstRecord} \cup TailLines : BurstLine(line)
    \/ SecurityFinish

BurstSpec == SecInit /\ [][BurstNext]_vars

----------------------------------------------------------------------------
(* gunlog_performance.py, parse_access_log.  A response time is a whole      *)
(* number of tenths of a second, as in calculate_summary_metrics.            *)

MaxPerfLines == 3

\* the groups 3 to 6 and 9 of a match of LOG_PATTERN; response_time is None
\* for a line that ends after the user agent
PerfRecord(date_str, request, status_code, response_size, response_time) ==
    [date_str |-> date_str, request |-> request, status_code |-> status_code,
     response_size |-> response_size, response_time |-> response_time]

PerfLines ==
    {PerfRecord(T0, ReqA, 200, "-", None),
     PerfRecord(T0, ReqA, 200, "0", None),
     PerfRecord(T1235, ReqA, 200, "120", "0.5"),
     PerfRecord(T0, "POST /a HTTP/1.1", 404, "0", "1.5"),
     PerfRecord(T1235, ReqCss, 200, "120", None),
     PerfRecord(T0, ReqB, 404, "-", "0.5"),
     PerfRecord(BadTime, "-", 200, "120", None)}

\* request.split(): method and url, or UNKNOWN for both
PerfRequest(request) ==
    LET request_parts == SplitWS(Text[request])
    IN  IF Len(request_parts) >= 2
        THEN [method |-> TextOf(request_parts[1]),
              url    |-> TextOf(request_parts[2])]
        ELSE [method |-> "UNKNOWN", url |-> "UNKNOWN"]

\* response_size != '-' and response_size.isdigit(), with zero taken for an
\* absent size
HasSize_Positive(response_size) ==
    /\ response_size # "-"
    /\ IsDigits(Text[response_size])
    /\ ToInt(Text[response_size]) > 0

\* response_size != '-' and response_size.isdigit()
HasSize(response_size) == response_size # "-" /\ IsDigits(Text[response_size])

\* response_time and response_time.replace('.', '', 1).isdigit()
HasTime(response_time) ==
    /\ response_time # None
    /\ response_time # ""
    /\ LET cs   == Text[response_time]
           dots == Positions(cs, ".")
       IN  IsDigits(IF dots = {} THEN cs
                    ELSE SubSeq(cs, 1, MinOf(dots) - 1)
                             \o SubSeq(cs, MinOf(dots) + 1, Len(cs)))

\* float(response_time) in tenths of a second, for a time written with one
\* decimal
PerfFloat(response_time) ==
    LET parts == Split(Text[response_time], ".")
    IN  10 * ToInt(parts[1]) + (IF Len(parts) > 1 THEN ToInt(parts[2]) ELSE 0)

\* the counter that holds the hour of the last record only
HourlyTraffic_LastOnly(hourly_traffic_, date_str) ==
    LET timestamp_parts == Split(Text[date_str], ":")
    IN  IF Len(timestamp_parts) >= 2
        THEN TextOf(timestamp_parts[2]) :> 1
        ELSE hourly_traffic_

\* timestamp_parts = date_str.split(':'); the second part counts as the hour
HourlyTraffic(hourly_traffic_, date_str) ==
    LET timestamp_parts == Split(Text[date_str], ":")
    IN  IF Len(timestamp_parts) >= 2
        THEN Inc(hourly_traffic_, TextOf(timestamp_parts[2]))
        ELSE hourly_traffic_

FreshUrlMetrics ==
    [count |-> 0, status_codes |-> EmptyMap, response_times |-> << >>,
     response_sizes |-> << >>]

\* the body of "if match:" for one line: the metrics after it
PerfCount(metrics, line) ==
    LET req         == PerfRequest(line.request)
        method      == req.method
        url         == req.url
        status_code == line.status_code
        file_ext    == Lower(splitext(Text[url]))
        sized       == HasSize(line.response_size)
        size        == ToInt(Text[line.response_size])
        timed       == HasTime(line.response_time)
        time        == PerfFloat(line.response_time)
        old         == IF url \in DOMAIN metrics.url_metrics
                       THEN metrics.url_metrics[url] ELSE FreshUrlMetrics
        url_metrics == [count          |-> old.count + 1,
                        status_codes   |-> Inc(old.status_codes, status_code),
                        response_sizes |-> IF sized
                                           THEN Append(old.response_sizes, size)
                                           ELSE old.response_sizes,
                        response_times |-> IF timed
                                           THEN Append(old.response_times, time)
                                           ELSE old.response_times]
    IN  [requests        |-> metrics.requests + 1,
         request_methods |-> Inc(metrics.request_methods, method),
         file_types      |-> IF file_ext # << >>
                             THEN Inc(metrics.file_types, TextOf(file_ext))
                             ELSE metrics.file_types,
         status_codes    |-> Inc(metrics.status_codes, status_code),
         response_sizes  |-> IF sized THEN Append(metrics.response_sizes, size)
                             ELSE metrics.response_sizes,
         response_times  |-> IF timed THEN Append(metrics.response_times, time)
                             ELSE metrics.response_times,
         slow_requests   |-> IF timed /\ time > 10
                             THEN Append(metrics.slow_requests,
                                         <<url, time, status_code>>)
                             ELSE metrics.slow_requests,
         hourly_traffic  |-> HourlyTraffic(metrics.hourly_traffic, line.date_str),
         url_metrics     |-> Put(metrics.url_metrics, url, url_metrics)]

PerfScanInit ==
    /\ ScanIdle
    /\ MainIdle
    /\ ScoreIdle
    /\ response_times = << >>
    /\ summary = NoSummary
    /\ perf_pc = "scan"
    /\ PerfScanFresh

\* One execution of the body of the loop over the lines, for a line that the
\* log pattern matches.
PerfLine(line) ==
    /\ perf_pc = "scan"
    /\ perf_line_count < MaxPerfLines
    /\ perf_line_count' = perf_line_count + 1
    /\ perf_match_count' = perf_match_count + 1
    /\ perf_log' = Append(perf_log, line)
    /\ perf_metrics' = PerfCount(perf_metrics, line)
    /\ UNCHANGED <<scanVars, mainVars, scoreVars, response_times, summary,
                   perf_pc>>

\* the same for a line without match
PerfUnmatchedLine(raw) ==
    /\ perf_pc = "scan"
    /\ perf_line_count < MaxPerfLines
    /\ NoMatch(raw)
    /\ perf_line_count' = perf_line_count + 1
    /\ UNCHANGED <<scanVars, mainVars, scoreVars, response_times, summary,
                   perf_pc, perf_log, perf_match_count, perf_metrics>>

\* the end of the file: return metrics
PerfFinish ==
    /\ perf_pc = "scan"
    /\ perf_pc' = "done"
    /\ UNCHANGED <<scanVars, mainVars, scoreVars, response_times, summary,
                   perf_log, perf_line_count, perf_match_count, perf_metrics>>

PerfScanNext ==
    \/ \E line \in PerfLines : PerfLine(line)
    \/ \E raw \in NonMatchingLines : PerfUnmatchedLine(raw)
    \/ PerfFinish

PerfScanSpec == PerfScanInit /\ [][PerfScanNext]_vars

----------------------------------------------------------------------------
(* gunlog.py: the master runner *)

\* the names of the list scripts of main
scripts ==
    <<"gunlog_error.py", "gunlog_ip2.py", "gunlog_popular.py",
      "gunlog_performance.py", "gunlog_content.py", "gunlog_security.py",
      "gunlog_seo.py", "gunlog_traffic.py", "gunlog_daily_summary.py",
      "gunlog_index_generator.py">>

\* what a call of run_script can meet: no file of that name, an exception of
\* subprocess.run, or a process that ends with a return code
Outcomes ==
    {[exists |-> FALSE, raised |-> FALSE], [exists |-> TRUE, raised |-> TRUE]}
        \cup {[exists |-> TRUE, raised |-> FALSE, returncode |-> c] :
                 c \in {0, 1, 2}}

\* a script counted as run successfully whenever its file exists
run_script_IfExists(outcome) == outcome.exists

\* the value that run_script returns
run_script(outcome) ==
    IF ~outcome.exists THEN FALSE
    ELSE IF outcome.raised THEN FALSE
    ELSE outcome.returncode = 0

RunnerInit ==
    /\ ScanIdle
    /\ PerfIdle
    /\ ScoreIdle
    /\ projects_data = << >>
    /\ project_index = 0
    /\ main_pc = "idle"
    /\ processed_projects = << >>
    /\ directories = {}
    /\ files = EmptyMap
    /\ runner_pc = "loop"
    /\ script_index = 0
    /\ results = << >>
    /\ last_run = NoRun
    /\ exit_status = None

\* One execution of the body of the loop over scripts.
RunScript(outcome) ==
    /\ runner_pc = "loop"
    /\ script_index < Len(scripts)
    /\ LET script  == scripts[script_index + 1]
           success == run_script(outcome)
       IN  /\ script_index' = script_index + 1
           /\ last_run' = [run |-> TRUE, script |-> script, outcome |-> outcome]
           /\ results' = Append(results, [script |-> script, success |-> success])
    /\ UNCHANGED <<scanVars, perfVars, scoreVars, projects_data, project_index,
                   main_pc, processed_projects, directories, files, runner_pc,
                   exit_status>>

\* The loop is exhausted: main prints the summary and returns failed == 0,
\* and the script exits with 0 if that is true, with 1 if not.
RunnerExit ==
    /\ runner_pc = "loop"
    /\ script_index = Len(scripts)
    /\ LET successful == Cardinality({k \in 1..Len(results) : results[k].success})
           failed     == Len(results) - successful
       IN  exit_status' = IF failed = 0 THEN 0 ELSE 1
    /\ runner_pc' = "exited"
    /\ UNCHANGED <<scanVars, perfVars, scoreVars, projects_data, project_index,
                   main_pc, processed_projects, directories, files,
                   script_index, results, last_run>>

RunnerNext ==
    \/ \E outcome \in Outcomes : RunScript(outcome)
    \/ RunnerExit

RunnerSpec == RunnerInit /\ [][RunnerNext]_vars

----------------------------------------------------------------------------
(* Sessions as the specification defines them, computed from the lines read.  *)
(* An event is a counted line of one IP: its timestamp and its URL.           *)

IPs == {l.ip : l \in AllLines}

EventTime(e) == parse_time(e.line.time_str, e.now).timestamp

\* the lines an analyzer feeds into its session tracking
Counted(e) ==
    CASE analyzer = "traffic" -> ~InternalIp[e.line.ip]
      [] analyzer = "content" -> /\ ~BotUA[e.line.user_agent]
                                 /\ ContentReq[e.line.request] # None
                                 /\ ~ContentStaticUrl[ContentReq[e.line.request]]
                                 /\ e.line.status_code = 200
      [] analyzer = "seo"     -> BotName[e.line.user_agent] = None

EventUrl(e) ==
    CASE analyzer = "traffic" -> TrafficReq[e.line.request].url
      [] analyzer = "content" -> ContentReq[e.line.request]
      [] analyzer = "seo"     -> SeoReq[e.line.request].url

\* the events of ip in file order
EventsOf(ip) ==
    LET sel == SelectSeq(log, LAMBDA e : Counted(e) /\ e.line.ip = ip)
    IN  [i \in 1..Len(sel) |->
           [ts |-> EventTime(sel[i]), url |-> EventUrl(sel[i]), line |-> sel[i].line]]

\* the events of ip recorded in metrics['paths']
PathsOf(ip) ==
    LET sel == SelectSeq(paths, LAMBDA q : q[2] = ip)
    IN  [i \in 1..Len(sel) |-> [ts |-> sel[i][1], url |-> sel[i][3], sid |-> sel[i][4]]]

NonDecreasing(ev) ==
    \A i \in 2..Len(ev) : SecondsBetween(ev[i].ts, ev[i - 1].ts) >= 0

\* event i is more than 30 minutes after the event before it
AfterGap(ev, i) == Exceeds(Minus(ev[i].ts, ev[i - 1].ts), 30 * 60)

\* the events that start a session: the first one and those after a gap
Starts(ev) == {i \in 1..Len(ev) : i = 1 \/ AfterGap(ev, i)}

\* the first event of the session of event i
StartOf(ev, i) == MaxOf({j \in Starts(ev) : j <= i})

\* the last event of the session that starts at s
EndOf(ev, s) ==
    IF \E j \in Starts(ev) : j > s
    THEN MinOf({j \in Starts(ev) : j > s}) - 1
    ELSE Len(ev)

\* the session still open after the last event
LastSession(ev) == SubSeq(ev, StartOf(ev, Len(ev)), Len(ev))

\* a session (events s..e of ev) visits exactly one distinct non-static URL
IsBounce(ev, s) ==
    Cardinality({ev[k].url : k \in {j \in s..EndOf(ev, s) : ~StaticUrl[ev[j].url]}}) = 1

Minute(m) == DateTime(2023, 10, 10, 13, m, 0)

----------------------------------------------------------------------------
(* claims *)

\* C1: traffic and content analyzers: for the counted events of one IP in
\* file order with non-decreasing timestamps, an event starts a new session
\* (gets a new session id) iff it is the IP's first event or comes strictly
\* more than 30 minutes after the IP's previous event; a gap of exactly 30
\* minutes extends the session.  After every line the session kept for the IP
\* is the one that started at the last such event, and in the traffic
\* analyzer the recorded session id changes exactly at those events.
C1_SessionBoundary ==
    analyzer \in {"traffic", "content"} =>
        \A ip \in IPs :
            LET ev == EventsOf(ip)
            IN  (Len(ev) > 0 /\ NonDecreasing(ev)) =>
                    /\ ip \in DOMAIN sessions
                    /\ LET cur == LastSession(ev)
                       IN  /\ Len(sessions[ip]) = Len(cur)
                           /\ \A k \in 1..Len(cur) :
                                 sessions[ip][k] =
                                     <<cur[k].ts, cur[k].url, SessionId(ip, cur[1].ts)>>
                    /\ analyzer = "traffic" =>
                          LET P == PathsOf(ip)
                          IN  /\ Len(P) = Len(ev)
                              /\ \A i \in 2..Len(P) :
                                    (P[i].sid # P[i - 1].sid) <=> i \in Starts(ev)

\* events at 0, 5, 40 and 50 minutes: two sessions, the open one is {40, 50}
C1_Witness ==
    /\ analyzer \in {"traffic", "content"}
    /\ LET ev == EventsOf("8.8.8.8")
       IN  /\ Len(ev) = 4
           /\ [i \in 1..4 |-> ev[i].ts] = <<Minute(0), Minute(5), Minute(40), Minute(50)>>
           /\ Starts(ev) = {1, 3}
           /\ Len(sessions["8.8.8.8"]) = 2
           /\ sessions["8.8.8.8"][1][1] = Minute(40)
           /\ sessions["8.8.8.8"][2][1] = Minute(50)

\* C2: SEO analyzer, non-bot traffic: an event whose gap from the IP's
\* previous non-bot event is at most 30 minutes is appended to the current
\* session and records no entry page; only a gap strictly greater than 30
\* minutes starts a new session.  So after every line the session kept for
\* an IP is the one started at its last event that is first or after such a
\* gap, and no more entry pages are counted than sessions were started.
C2_SeoSessionContinues ==
    analyzer = "seo" =>
        /\ \A ip \in IPs :
              LET ev == EventsOf(ip)
              IN  Len(ev) > 0 =>
                      /\ ip \in DOMAIN sessions
                      /\ LET cur == LastSession(ev)
                         IN  sessions[ip] = [k \in 1..Len(cur) |-> <<cur[k].ts, cur[k].url>>]
        /\ \A u \in Urls :
              Get(top_entry_pages, u) <=
                  Cardinality({<<ip, i>> \in IPs \X (1..MaxLines + 1) :
                                  /\ i \in Starts(EventsOf(ip))
                                  /\ EventsOf(ip)[i].url = u})

\* C3: traffic analyzer: the bounce rate returned by calculate_bounce_rate
\* after the scan is (bounce sessions / all sessions) x 100 over every
\* session reconstructed during the scan, those closed by an inactivity gap
\* included.
C3_BounceRateOverAllSessions ==
    (analyzer = "traffic" /\ pc = "done") =>
        LET rate == calculate_bounce_rate(sessions)
            all  == {<<ip, s>> \in IPs \X (1..MaxLines + 1) : s \in Starts(EventsOf(ip))}
            bounces == {x \in all : IsBounce(EventsOf(x[1]), x[2])}
        IN  IF all = {}
            THEN rate.num = 0
            ELSE rate.num * Cardinality(all) = Cardinality(bounces) * 100 * rate.den

\* the URLs of the session kept for ip whose extension is not one of
\* .jpg .jpeg .png .gif .ico .css .js .svg .woff .woff2 .ttf .eot
PagesOfSession(ip) ==
    {sessions[ip][k][2] : k \in {j \in 1..Len(sessions[ip]) : ~StaticUrl[sessions[ip][j][2]]}}

\* C4: traffic analyzer, calculate_bounce_rate: a session is counted as a
\* bounce iff the set of its distinct URLs without a static-asset extension
\* has exactly one element, and every session is counted once in the total.
C4_BounceIffOnePage ==
    analyzer = "traffic" =>
        LET rate == calculate_bounce_rate(sessions)
            bounces == {ip \in DOMAIN sessions : Cardinality(PagesOfSession(ip)) = 1}
        IN  IF DOMAIN sessions = {}
            THEN rate = [num |-> 0, den |-> 1]
            ELSE rate = [num |-> 100 * Cardinality(bounces),
                         den |-> Cardinality(DOMAIN sessions)]

\* one IP only visits /a twice (a bounce), the other's session holds nothing
\* but a static asset (no bounce): bounce rate 100/2
C4_Witness ==
    /\ analyzer = "traffic"
    /\ DOMAIN sessions = {"8.8.8.8", "1.1.1.1"}
    /\ [k \in 1..Len(sessions["1.1.1.1"]) |-> sessions["1.1.1.1"][k][2]] = <<"/a", "/a">>
    /\ [k \in 1..Len(sessions["8.8.8.8"]) |-> sessions["8.8.8.8"][k][2]] = <<"/s.css">>
    /\ calculate_bounce_rate(sessions) = [num |-> 100, den |-> 2]

\* the exit-page counts the sessions of the lines read call for: one for the
\* last URL of every session that a later event of its IP has closed and,
\* once the scan is over, one for the last URL of every other session
ExpectedExits(u) ==
    Cardinality({x \in IPs \X (1..Len(log)) :
                    LET ev == EventsOf(x[1])
                        s  == x[2]
                    IN  /\ s \in Starts(ev)
                        /\ ev[EndOf(ev, s)].url = u
                        /\ (pc = "done" \/ EndOf(ev, s) < Len(ev))})

SessionsStarted ==
    Cardinality({x \in IPs \X (1..Len(log)) : x[2] \in Starts(EventsOf(x[1]))})

\* C5: traffic analyzer: every session emits exactly one exit-page count, for
\* the URL of its last event, and only when it ends: when a later event of
\* the same IP arrives more than 30 minutes after it, or at the end of the
\* stream.  After a complete scan the exit_pages counts sum to the number of
\* sessions started.
C5_OneExitPerSession ==
    analyzer = "traffic" =>
        /\ \A u \in Urls \cup DOMAIN exit_pages : Get(exit_pages, u) = ExpectedExits(u)
        /\ pc = "done" => Total(exit_pages) = SessionsStarted

\* a complete scan of three sessions, two of them closed by a gap
C5_Witness ==
    /\ analyzer = "traffic"
    /\ pc = "done"
    /\ SessionsStarted = 3
    /\ Cardinality(DOMAIN sessions) = 1
    /\ Total(exit_pages) = 3

\* C6: traffic analyzer: static-asset URLs are excluded from entry, exit and
\* bounce computation: no static-asset URL has a non-zero count in
\* entry_pages or exit_pages, and no static URL is among the distinct URLs
\* of the bounce test.
C6_StaticExcluded ==
    analyzer = "traffic" =>
        /\ \A u \in DOMAIN entry_pages : StaticUrl[u] => entry_pages[u] = 0
        /\ \A u \in DOMAIN exit_pages : StaticUrl[u] => exit_pages[u] = 0
        /\ \A ip \in DOMAIN sessions : \A u \in UniquePages(sessions[ip]) : ~StaticUrl[u]

\* a step of the traffic scan that processes a counted request for a
\* static-asset URL
StaticRequestStep ==
    /\ analyzer = "traffic"
    /\ pc = "scan"
    /\ Len(log') = Len(log) + 1
    /\ Counted(log'[Len(log')])
    /\ StaticUrl[EventUrl(log'[Len(log')])]

\* C7: traffic analyzer: a request for a static-asset URL neither closes nor
\* extends a session's time window: processing it leaves the IP's
\* last-activity timestamp unchanged and starts no session (every IP keeps
\* the first event of its session).
C7_StaticKeepsWindow ==
    [][StaticRequestStep =>
          /\ ip_sessions' = ip_sessions
          /\ DOMAIN sessions' = DOMAIN sessions
          /\ \A ip \in DOMAIN sessions : sessions'[ip][1] = sessions[ip][1]]_vars

\* C8: traffic analyzer: the session id of every event in metrics['paths'] is
\* the id derived from (IP, timestamp of the first event of the event's
\* session); with non-decreasing timestamps two events of one IP carry the
\* same id iff no gap of more than 30 minutes separates consecutive events
\* between them.
C8_SessionIdFromFirstEvent ==
    analyzer = "traffic" =>
        \A ip \in IPs :
            LET P == PathsOf(ip)
            IN  /\ \A i \in 1..Len(P) : P[i].sid = SessionId(ip, P[StartOf(P, i)].ts)
                /\ NonDecreasing(P) =>
                      \A i, j \in 1..Len(P) :
                          i < j => (P[i].sid = P[j].sid
                                      <=> \A k \in (i + 1)..j : ~AfterGap(P, k))

\* events at 0, 5, 40 and 50 minutes: the ids of the first and the third
\* event, each shared with the event after it
C8_Witness ==
    /\ analyzer = "traffic"
    /\ LET P == PathsOf("8.8.8.8")
       IN  /\ [i \in 1..Len(P) |-> P[i].ts] = <<Minute(0), Minute(5), Minute(40), Minute(50)>>
           /\ [i \in 1..Len(P) |-> P[i].sid] =
                 <<SessionId("8.8.8.8", Minute(0)), SessionId("8.8.8.8", Minute(0)),
                   SessionId("8.8.8.8", Minute(40)), SessionId("8.8.8.8", Minute(40))>>

\* the position in metrics['paths'] of the first event of the session that
\* the event at position i belongs to (sessions as the scan delimits them: a
\* session ends when the next event of its IP comes more than 30 minutes
\* after its last event)
SessionOfPath(i) ==
    LET ip  == paths[i][2]
        own == {k \in 1..Len(paths) : paths[k][2] = ip}
        prev(k) == MaxOf({m \in own : m < k})
        starts == {k \in own : \/ \A m \in own : m >= k
                               \/ Exceeds(Minus(paths[k][1], paths[prev(k)][1]), 30 * 60)}
    IN  MaxOf({k \in starts : k <= i})

\* C9: traffic analyzer, any order of timestamps: once an inactivity gap has
\* closed a session of an IP no later event is given the closed session's id,
\* so calculate_visitor_flow, which groups by session id, never puts events
\* of two different sessions into one path.
C9_ClosedSessionNotReopened ==
    analyzer = "traffic" =>
        \A p \in 1..Len(paths) :
            \A i, j \in session_paths(paths, paths[p][4]) :
                SessionOfPath(i) = SessionOfPath(j)

\* the counted lines read whose date string parses, by a field of the result
ParsedWith(field, v) ==
    {i \in 1..Len(log) :
        /\ Counted(log[i])
        /\ ~ParsedTime[log[i].line.time_str].failed
        /\ parse_time(log[i].line.time_str, NoClock)[field] = v}

\* C10: parse_time: a date string that cannot be parsed is reported as a
\* failure: the record does not get the wall-clock time as its timestamp, is
\* not counted in hour bucket 0 or weekday bucket 0, and is not fed into
\* session tracking with a substituted time.
C10_ParseFailureSurfaced ==
    analyzer = "traffic" =>
        /\ Get(hourly_traffic, 0) = Cardinality(ParsedWith("hour", 0))
        /\ Get(daily_traffic, 0) = Cardinality(ParsedWith("day_of_week", 0))
        /\ \A i \in 1..Len(paths) :
              \E k \in 1..Len(log) :
                  /\ ~ParsedTime[log[k].line.time_str].failed
                  /\ paths[i][1] = ParsedTime[log[k].line.time_str].dt
        /\ \A ip \in DOMAIN ip_sessions : ip_sessions[ip] \notin NowValues

\* C11: traffic analyzer: the scan never aborts on a single malformed record:
\* whatever fields the matching lines carry (a referrer that the URL parser
\* rejects included), parse_access_log does not return None, and the metrics
\* it returns count every line that is not from an internal IP.
C11_MalformedFieldNotFatal ==
    analyzer = "traffic" =>
        /\ pc # "failed"
        /\ pc = "done" =>
              total_hits >= Cardinality({i \in 1..Len(log) : Counted(log[i])})

\* the metrics and the session state of the three analyzers
metricVars == <<match_count, skipped_count, total_hits, bot_hits, human_hits,
                hourly_traffic, daily_traffic, pages, entry_pages, exit_pages,
                sessions, ip_sessions, paths, ip_last_seen, top_entry_pages,
                top_exit_pages, crawl_state>>

\* C12: a line that does not match the log pattern is skipped without being
\* fatal: reading it changes no metric counter and no session state, only the
\* count of lines read, and the scan goes on (it can still read lines and end
\* with metrics); at every point lines read = lines matched + lines skipped
\* as unmatched.
C12_UnmatchedLineSkipped ==
    /\ [](line_count = match_count + unmatched)
    /\ [][unmatched' # unmatched =>
             /\ UNCHANGED metricVars
             /\ line_count' = line_count + 1
             /\ pc' = "scan"]_vars

\* a complete scan with a non-matching line between two counted lines
C12_Witness ==
    /\ pc = "done"
    /\ unmatched = 1
    /\ line_count = 3
    /\ total_hits = 2
    /\ Len(log) = 2

\* the project's access log cannot be opened
LogMissing(project_data) ==
    /\ project_data.project # ""
    /\ project_data.log_file # ""
    /\ project_data.log_file \notin DOMAIN LogFiles

RECURSIVE FilesAfter(_)
\* the report files that main leaves after a run over rows
FilesAfter(rows) ==
    IF rows = << >> THEN EmptyMap
    ELSE ReportProject(FilesAfter(SubSeq(rows, 1, Len(rows) - 1)), rows[Len(rows)])

\* C13: main of the traffic analyzer: a project whose access log is missing
\* or unreadable produces no report, and the projects that follow it are
\* still scanned and reported exactly as if the failing project were not in
\* the list: at every point the report files are those of a run over the
\* projects taken so far without the ones whose log cannot be opened, and
\* main ends only after it has taken every project.
C13_MissingLogSkipsProject ==
    main_pc \in {"loop", "done"} =>
        LET taken == SubSeq(projects_data, 1, project_index)
        IN  /\ files = FilesAfter(SelectSeq(taken, LAMBDA r : ~LogMissing(r)))
            /\ main_pc = "done" => project_index = Len(projects_data)

\* a project with a missing log followed by one that is reported
C13_Witness ==
    /\ main_pc = "done"
    /\ Len(projects_data) = 2
    /\ LogMissing(projects_data[1])
    /\ projects_data[2] = [project |-> "a.b", log_file |-> "/a.log"]
    /\ <<"a_b", "today", "traffic_report.html">> \in DOMAIN files
    /\ <<"c">> \in directories
    /\ \A f \in DOMAIN files : f[1] # "c"

\* the element at 0-based position k of the samples put in ascending order:
\* at most k samples are smaller and more than k are not larger
AtRank(times, k) ==
    CHOOSE v \in {times[i] : i \in 1..Len(times)} :
        /\ Cardinality({i \in 1..Len(times) : times[i] < v}) <= k
        /\ Cardinality({i \in 1..Len(times) : times[i] <= v}) > k

\* C14: calculate_summary_metrics: for every non-empty list of N response
\* times p90, p95 and p99 are the elements at 0-based index floor(N x 0.90),
\* floor(N x 0.95) and floor(N x 0.99) of the samples sorted ascending; each
\* index is at most N - 1, and min <= p90 <= p95 <= p99 <= max.  For the six
\* samples 0.1, 0.2, 0.5, 0.9, 1.2, 3.0 p90 is 3.0.
C14_PercentileByFloorIndex ==
    (summary # NoSummary /\ response_times # << >>) =>
        LET n  == Len(response_times)
            st == summary.response_time_stats
        IN  /\ (n * 9) \div 10 <= n - 1
            /\ (n * 95) \div 100 <= n - 1
            /\ (n * 99) \div 100 <= n - 1
            /\ st.p90 = AtRank(response_times, (n * 9) \div 10)
            /\ st.p95 = AtRank(response_times, (n * 95) \div 100)
            /\ st.p99 = AtRank(response_times, (n * 99) \div 100)
            /\ st.min <= st.p90 /\ st.p90 <= st.p95
            /\ st.p95 <= st.p99 /\ st.p99 <= st.max
            /\ response_times = SixSamples => st.p90 = 30

\* a hundred and more samples, where the three percentiles differ
C14_Witness ==
    /\ summary # NoSummary
    /\ Len(response_times) = MaxSamples
    /\ summary.response_time_stats.p90 < summary.response_time_stats.p95
    /\ summary.response_time_stats.p95 < summary.response_time_stats.p99
    /\ summary.response_time_stats.p99 <= summary.response_time_stats.max

\* a <= b for quotients with positive denominators
FracLeq(a, b) == a.num * b.den <= b.num * a.den

FracEq(a, b) == a.num * b.den = b.num * a.den

\* C15: content analyzer: for every URL that gets an engagement entry,
\* engagement_score = avg_time_on_page x (1 - bounce_rate/100) when
\* bounce_rate < 100 and 0 otherwise, so 0 <= engagement_score <=
\* avg_time_on_page, and bounce_rate lies within [0,100].
C15_EngagementScore ==
    analyzer = "content" =>
        \A url \in DOMAIN engagement_rates :
            LET r == engagement_rates[url]
                a == r.avg_time_on_page
                b == r.bounce_rate
                s == r.engagement_score
            IN  /\ a.den > 0 /\ b.den > 0 /\ s.den > 0
                /\ a.micro.den > 0 /\ s.micro.den > 0
                /\ FracLeq(Frac(0, 1), b) /\ FracLeq(b, Frac(100, 1))
                /\ IF FracEq(b, Frac(100, 1))
                   THEN s.num = 0 /\ s.micro.num = 0
                   ELSE \* s = a * (100 - b) / 100, in both parts of the sum
                        LET rest == Frac(100 * b.den - b.num, 100 * b.den)
                        IN  /\ s.num * (a.den * rest.den) = (a.num * rest.num) * s.den
                            /\ s.micro.num * (a.micro.den * rest.den)
                                  = (a.micro.num * rest.num) * s.micro.den
                /\ FracLeq(Frac(0, 1), s) /\ FracLeq(s, a)
                /\ FracLeq(Frac(0, 1), s.micro) /\ FracLeq(s.micro, a.micro)

\* /a has an entry with a bounce rate of 50 (one of two sessions with /a
\* holds nothing else) and a positive time on page, so a score between 0
\* and the time on page
C15_Witness ==
    /\ analyzer = "content"
    /\ pc = "done"
    /\ "/a" \in DOMAIN engagement_rates
    /\ FracEq(engagement_rates["/a"].bounce_rate, Frac(50, 1))
    /\ engagement_rates["/a"].avg_time_on_page.num > 0
    /\ engagement_rates["/a"].engagement_score.num > 0

\* the times between consecutive visits of url in the session kept for ip
RevisitGaps(url, ip) ==
    LET visits == SelectSeq(sessions[ip], LAMBDA v : v[2] = url)
    IN  [i \in 1..(Len(visits) - 1) |-> Minus(visits[i + 1][1], visits[i][1])]

\* the sum and the number of the times that make up the average time on
\* page of url when a gap g counts iff 0 < g <= 3600: those gaps and the
\* estimated reading times of the IPs whose session holds url
TimesWithGapsUpTo3600(url) ==
    LET holders == {ip \in DOMAIN sessions : \E i \in 1..Len(sessions[ip]) : sessions[ip][i][2] = url}
        gaps(ip) == SelectSeq(RevisitGaps(url, ip),
                              LAMBDA g : Exceeds(g, 0) /\ ~Exceeds(g, 3600))
        reads(ip) == SelectSeq(content_engagement[url], LAMBDA e : e.ip = ip)
    IN  [sum |-> SumOver([ip \in holders |->
                            20 * SeqSum([i \in DOMAIN gaps(ip) |-> gaps(ip)[i].s])
                              + SeqSum([i \in 1..Len(reads(ip)) |->
                                           reads(ip)[i].estimated_reading_time])],
                         holders),
         micro |-> SumOver([ip \in holders |->
                              SeqSum([i \in DOMAIN gaps(ip) |-> gaps(ip)[i].us])],
                           holders),
         count |-> SumOver([ip \in holders |-> Len(gaps(ip)) + Len(reads(ip))],
                           holders)]

\* C16: content analyzer: the gap g in seconds between two consecutive visits
\* to the same URL within one session contributes to the URL's average time
\* on page iff 0 < g <= 3600 (a gap of exactly 3600 s counts, a gap of 0 s
\* does not): after the scan the average of every URL with engagements is
\* the mean of those gaps and of the estimated reading times.
C16_RevisitGapUpTo3600 ==
    (analyzer = "content" /\ pc = "done") =>
        \A url \in DOMAIN content_engagement :
            LET t == TimesWithGapsUpTo3600(url)
            IN  IF t.count = 0
                THEN url \notin DOMAIN engagement_rates
                ELSE /\ url \in DOMAIN engagement_rates
                     /\ FracEq(engagement_rates[url].avg_time_on_page,
                               Frac(t.sum, 20 * t.count))
                     /\ FracEq(engagement_rates[url].avg_time_on_page.micro,
                               Frac(t.micro, t.count))

\* C17: the security score is 100 minus the attack penalty (at most 50), the
\* authentication-failure penalty (at most 20) and the sensitive-access
\* penalty (at most 20), lies between 0 and 100, and is the same in the HTML
\* and the text report.
AttackPenalty == Min2(50, Total(attack_types))

AuthPenalty == Min2(20, 5 * AuthFailureCount(security_events))

SensitivePenalty == Min2(20, 2 * Total(sensitive_urls_accessed))

C17_SecurityScore ==
    /\ AttackPenalty \in 0..50
    /\ AuthPenalty \in 0..20
    /\ SensitivePenalty \in 0..20
    /\ \A r \in DOMAIN security_scores :
          /\ security_scores[r] =
                 100 - AttackPenalty - AuthPenalty - SensitivePenalty
          /\ security_scores[r] \in 0..100
    /\ sec_pc = "done" => security_scores["html"] = security_scores["text"]

\* both reports are written from metrics in which every penalty is over its
\* cap, so that the score is 100 - 50 - 20 - 20
C17_Witness ==
    /\ sec_pc = "done"
    /\ Total(attack_types) > 50
    /\ 5 * AuthFailureCount(security_events) > 20
    /\ 2 * Total(sensitive_urls_accessed) > 20
    /\ security_scores["html"] = 10
    /\ security_scores["text"] = 10

\* C18: the SEO score is 100 minus min(30, 5 x issues), minus 20 without bot
\* requests or 10 with fewer than 100, minus min(20, floor(20 x http /
\* (http + https))) when an http:// URL was seen; it lies between 0 and 100
\* and is the same in the HTML and the text report.
IssuePenalty == Min2(30, 5 * Len(seo_issues))

BotPenalty ==
    IF bot_requests = 0 THEN 20 ELSE IF bot_requests < 100 THEN 10 ELSE 0

\* the largest whole number not above 20 * http / (http + https)
HttpPenalty ==
    IF http_vs_https.http > 0
    THEN Min2(20, CHOOSE k \in 0..20 :
                     /\ k * (http_vs_https.http + http_vs_https.https)
                            <= 20 * http_vs_https.http
                     /\ (k + 1) * (http_vs_https.http + http_vs_https.https)
                            > 20 * http_vs_https.http)
    ELSE 0

C18_SeoScore ==
    /\ \A r \in DOMAIN seo_scores :
          /\ seo_scores[r] =
                 Max2(0, Min2(100, 100 - IssuePenalty - BotPenalty - HttpPenalty))
          /\ seo_scores[r] \in 0..100
    /\ seo_pc = "done" => seo_scores["html"] = seo_scores["text"]

\* both reports are written from metrics with more than six issues, one of
\* each type among them, fewer than 100 bot requests and one http:// URL
\* among three
C18_Witness ==
    /\ seo_pc = "done"
    /\ 5 * Len(seo_issues) > 30
    /\ {seo_issues[i].issue_type : i \in DOMAIN seo_issues} =
           {"404 for Indexed Page", "Low Crawl Frequency", "Non-HTTPS URLs"}
    /\ bot_requests \in 1..99
    /\ http_vs_https = [http |-> 1, https |-> 2]
    /\ seo_scores["html"] = 54
    /\ seo_scores["text"] = 54

\* C19: for every record the result of detect_threats holds each category
\* once if one of its patterns is found in the request, the user agent or the
\* referrer, and not at all otherwise; a record that is read adds exactly 1 to
\* attack_types[c] for each such category c and nothing for the others.
MatchedCategories(line) ==
    LET targets == <<line.request, line.user_agent, line.referrer>>
    IN  {c \in DOMAIN THREAT_PATTERNS :
            \E i \in 1..Len(THREAT_PATTERNS[c]), k \in 1..3 :
                re_search(THREAT_PATTERNS[c][i], targets[k])}

Matched == [l \in SecurityLines |-> MatchedCategories(l)]

Occurrences(list, x) == Cardinality({i \in 1..Len(list) : list[i] = x})

EachCategoryOnce ==
    \A l \in SecurityLines, c \in DOMAIN THREAT_PATTERNS :
        Occurrences(Threats[l], c) = IF c \in Matched[l] THEN 1 ELSE 0

\* the step reads a matching line
ReadsLine == Len(sec_log') = Len(sec_log) + 1

LineRead == sec_log'[Len(sec_log')].line

AttackCountsGrowForEveryRecord ==
    ReadsLine =>
        \A c \in DOMAIN THREAT_PATTERNS :
            Get(attack_types', c) =
                Get(attack_types, c) + IF c \in Matched[LineRead] THEN 1 ELSE 0

C19_ThreatsCountedOnce ==
    []EachCategoryOnce /\ [][AttackCountsGrowForEveryRecord]_vars

\* C19 as amended: the counts grow so for every record whose address is not
\* private; a record from a private address is skipped before detect_threats
\* is called and leaves attack_types as it is.
AttackCountsGrowUnlessPrivate ==
    ReadsLine =>
        \A c \in DOMAIN THREAT_PATTERNS :
            Get(attack_types', c) =
                Get(attack_types, c)
                    + IF ~PrivateIp[LineRead.ip] /\ c \in Matched[LineRead]
                      THEN 1 ELSE 0

C19_ThreatsCountedOncePublic ==
    []EachCategoryOnce /\ [][AttackCountsGrowUnlessPrivate]_vars

\* the number of pattern/target pairs of category c found in the line
MatchingPairs(line, c) ==
    LET targets == <<line.request, line.user_agent, line.referrer>>
    IN  Cardinality({<<i, k>> \in (1..Len(THREAT_PATTERNS[c])) \X (1..3) :
                        re_search(THREAT_PATTERNS[c][i], targets[k])})

\* two records have been read, one with two SQL patterns in its request and
\* a pattern of another category in its user agent, one with patterns of
\* three categories, those of 'Server Scan' in the request and the referrer:
\* every category counts 1
C19_Witness ==
    /\ Len(sec_log) = 2
    /\ MatchingPairs(sec_log[1].line, "SQL Injection") >= 2
    /\ Matched[sec_log[1].line] = {"SQL Injection", "Command Injection"}
    /\ MatchingPairs(sec_log[2].line, "Server Scan") >= 2
    /\ Cardinality(Matched[sec_log[2].line]) = 3
    /\ DOMAIN attack_types =
           Matched[sec_log[1].line] \cup Matched[sec_log[2].line]
    /\ \A c \in DOMAIN attack_types : attack_types[c] = 1

\* C20: a request 'GET /x?id=1 UNION SELECT * FROM users' that reaches
\* detect_threats is recorded with 'SQL Injection'; a request
\* 'GET /about HTTP/1.1' without referrer from an ordinary browser is
\* recorded with no category, so it is not among the suspicious requests.
Scanned == {i \in 1..Len(sec_log) : ~PrivateIp[sec_log[i].line.ip]}

SuspiciousEntries(line) ==
    {k \in 1..Len(sec_metrics.suspicious_requests) :
        /\ sec_metrics.suspicious_requests[k].request = line.request
        /\ sec_metrics.suspicious_requests[k].user_agent = line.user_agent
        /\ sec_metrics.suspicious_requests[k].referrer = line.referrer}

C20_BrowserNotFlagged ==
    \A i \in Scanned :
        LET line == sec_log[i].line
        IN  /\ line.request = SqlRequest =>
                  \E k \in SuspiciousEntries(line) :
                      InList("SQL Injection",
                             sec_metrics.suspicious_requests[k].threat_types)
            /\ (/\ line.request = AboutRequest
                /\ line.referrer = "-"
                /\ line.user_agent \in {Browser, Opera})
                   => SuspiciousEntries(line) = {}

\* the line whose loop body the step runs to its end
LastRead == log'[Len(log')].line

ScanReadsLine == Len(log') = Len(log) + 1

\* C21: in the traffic analyzer total_hits = bot_hits + human_hits after every
\* processed line, and a record of the user agent
\* 'Mozilla/5.0 (compatible; Googlebot/2.1)' adds 1 to bot_hits and leaves
\* human_hits and the counters browsers, os and devices as they are
GooglebotCountedAsBot ==
    (/\ analyzer = "traffic"
     /\ ScanReadsLine
     /\ LastRead.user_agent = Googlebot
     /\ ~InternalIp[LastRead.ip])
        => /\ bot_hits' = bot_hits + 1
           /\ total_hits' = total_hits + 1
           /\ UNCHANGED <<human_hits, browsers, os, devices>>

C21_HitsSplit ==
    /\ [](analyzer = "traffic" => total_hits = bot_hits + human_hits)
    /\ [][GooglebotCountedAsBot]_vars

\* a scan with the package present that has counted a crawler and a human hit
C21_Witness ==
    /\ analyzer = "traffic"
    /\ USER_AGENTS_AVAILABLE
    /\ \E k \in 1..Len(log) : log[k].line.user_agent = Googlebot
    /\ bot_hits >= 1
    /\ human_hits >= 1
    /\ browsers = human_hits
    /\ skipped_count >= 1

\* the records of the user agent ua read from addresses that are not internal
RecordsOf(ua) ==
    {k \in 1..Len(log) :
        log[k].line.user_agent = ua /\ ~InternalIp[log[k].line.ip]}

\* C27: is_bot is False for the user agent of an ordinary browser such as
\* 'Mozilla/5.0 (Windows NT 10.0; Win64; x64) AppleWebKit/537.36 Chrome/120.0
\* Safari/537.36'; the traffic analyzer counts its requests in human_hits and
\* the content analyzer does not skip them
C27_BrowserIsHuman ==
    /\ RecordsOf(Chrome) # {} => ~is_bot(Chrome)
    /\ analyzer = "traffic" => human_hits >= Cardinality(RecordsOf(Chrome))
    /\ analyzer = "content" => total_hits >= Cardinality(RecordsOf(Chrome))

\* C22: two scans of one unchanged log by the content analyzer return the
\* same counts (the trending-content counts and the hourly and daily
\* histograms among them), whatever the times of the two scans
C22_CountsIndependentOfScanTime ==
    (analyzer = "content" /\ pc = "done" /\ first_run # NoRun)
        => ContentCounts = first_run.counts

\* the projects taken so far whose log parse_access_log has scanned to the end
Scannable ==
    {k \in 1..project_index :
        /\ projects_data[k].project # ""
        /\ projects_data[k].log_file # ""
        /\ parse_access_log(projects_data[k].log_file) # NoMetrics}

\* C26: main of the traffic analyzer: for every project with a readable log
\* the reports are generated without an exception and main goes on to the
\* next project, also when the scan has counted no hit (an empty log, a log
\* without a matching line, a log with lines of internal addresses only)
C26_ZeroHitsReported ==
    /\ main_pc # "raised"
    /\ \A k \in Scannable :
          \E f \in DOMAIN files :
              f[1] = Str(ReplaceDots(Strip(Chars[projects_data[k].project])))

\* the number of size samples kept for the single URLs
UrlSizeSamples ==
    LET n == [u \in DOMAIN perf_metrics.url_metrics |->
                 Len(perf_metrics.url_metrics[u].response_sizes)]
    IN  SumOver(n, DOMAIN n)

PerfReadsLine == Len(perf_log') = Len(perf_log) + 1

PerfLastRead == perf_log'[Len(perf_log')]

\* the size samples of a URL
SizesOf(metrics, url) ==
    IF url \in DOMAIN metrics.url_metrics
    THEN metrics.url_metrics[url].response_sizes ELSE << >>

\* the size samples of the URL a record asks for
UrlSizes(metrics, line) == SizesOf(metrics, PerfRequest(line.request).url)

SizeSampleAdded ==
    PerfReadsLine =>
        LET line == PerfLastRead
        IN  /\ line.response_size = "-" =>
                  /\ perf_metrics'.response_sizes = perf_metrics.response_sizes
                  /\ \A u \in DOMAIN perf_metrics'.url_metrics :
                        SizesOf(perf_metrics', u) = SizesOf(perf_metrics, u)
            /\ line.response_size = "0" =>
                  /\ perf_metrics'.response_sizes
                        = Append(perf_metrics.response_sizes, 0)
                  /\ UrlSizes(perf_metrics', line)
                        = Append(UrlSizes(perf_metrics, line), 0)

\* C23: performance analyzer: a matched record with the size field '-' adds
\* no sample to response_sizes, neither to the global list nor to the list
\* of a URL, a record with the size field '0' adds the sample 0 to both; after
\* any sequence of lines the number of global size samples is the number of
\* matched records with a numeric size field and is the sum of the numbers
\* of samples of the URLs
C23_AbsentSizeIsNotZero ==
    /\ [](/\ Len(perf_metrics.response_sizes)
                = Cardinality({i \in 1..Len(perf_log) :
                                  perf_log[i].response_size # "-"})
          /\ Len(perf_metrics.response_sizes) = UrlSizeSamples)
    /\ [][SizeSampleAdded]_vars

\* a scan that has read a record without size, one of size 0 and one of size
\* 120, of two URLs
C23_Witness ==
    /\ perf_pc = "done"
    /\ \E i, j, k \in 1..Len(perf_log) :
          /\ perf_log[i].response_size = "-"
          /\ perf_log[j].response_size = "0"
          /\ perf_log[k].response_size = "120"
    /\ Len(perf_metrics.response_sizes) = 2
    /\ Cardinality(DOMAIN perf_metrics.url_metrics) >= 2

RECURSIVE PerfScan(_)
\* the metrics that parse_access_log returns for a log of the matching lines
PerfScan(lines) ==
    IF lines = << >> THEN FreshPerfMetrics
    ELSE PerfCount(PerfScan(SubSeq(lines, 1, Len(lines) - 1)), lines[Len(lines)])

\* the counting metrics
Counting(metrics) ==
    [requests        |-> metrics.requests,
     status_codes    |-> metrics.status_codes,
     request_methods |-> metrics.request_methods,
     file_types      |-> metrics.file_types,
     hourly_traffic  |-> metrics.hourly_traffic]

\* the lines read, put in the order p
Reordered(p) == [i \in 1..Len(perf_log) |-> perf_log[p[i]]]

\* C24: performance analyzer: two logs of the same lines in different orders
\* give equal requests totals and equal counters status_codes,
\* request_methods, file_types and hourly_traffic
C24_CountsOrderIndependent ==
    \A p \in Permutations(1..Len(perf_log)) :
        Counting(PerfScan(Reordered(p))) = Counting(perf_metrics)

\* a scan of three different lines with two hours, two methods and a file
\* type, for which another order gives other lists of samples
C24_Witness ==
    /\ perf_pc = "done"
    /\ Len(perf_log) = 3
    /\ Cardinality(DOMAIN perf_metrics.hourly_traffic) = 2
    /\ Cardinality(DOMAIN perf_metrics.request_methods) = 2
    /\ perf_metrics.file_types # EmptyMap
    /\ \E p \in Permutations(1..3) :
          PerfScan(Reordered(p)).response_sizes # perf_metrics.response_sizes

\* the process of the script has ended with the return code 0
ReturnsZero(outcome) ==
    outcome.exists /\ ~outcome.raised /\ outcome.returncode = 0

\* the body of the loop has run once more
RunsScript == script_index' = script_index + 1

\* every call of run_script takes the next script of the list, whatever the
\* results so far, and records it as successful iff its file exists and its
\* process has returned the code 0
NextScriptRun ==
    RunsScript =>
        /\ last_run'.script = scripts[script_index + 1]
        /\ results' = Append(results,
              [script  |-> scripts[script_index + 1],
               success |-> /\ last_run'.outcome.exists
                           /\ ReturnsZero(last_run'.outcome)])

\* C25: master runner: every script of the list is run exactly once, in the
\* listed order, whether or not earlier scripts have failed; a script is
\* recorded as successful iff it exists and its process returns code 0; the
\* exit status of the runner is 0 iff no script is recorded as failed
C25_EveryScriptRunOnce ==
    /\ [](/\ Len(results) = script_index
          /\ \A k \in 1..Len(results) : results[k].script = scripts[k]
          /\ runner_pc = "exited" =>
                /\ Len(results) = Len(scripts)
                /\ exit_status = 0 <=>
                      \A k \in 1..Len(results) : results[k].success)
    /\ [][NextScriptRun]_vars

\* a run in which the first script has failed and a later one has succeeded
C25_Witness ==
    /\ runner_pc = "exited"
    /\ exit_status = 1
    /\ ~results[1].success
    /\ results[Len(scripts)].success
    /\ last_run.script = "gunlog_index_generator.py"

\* the number of events of a type
EventCount(events, type) ==
    Cardinality({k \in 1..Len(events) : events[k].event_type = type})

\* sum(metrics['sensitive_urls_accessed'].values())
SensitiveAccess(counts) == SumOver(counts, DOMAIN counts)

SensitiveCountedOnce ==
    ReadsLine =>
        /\ SensitiveAccess(sensitive_urls_accessed')
              <= SensitiveAccess(sensitive_urls_accessed) + 1
        /\ EventCount(security_events', "Sensitive Resource Access")
              <= EventCount(security_events, "Sensitive Resource Access") + 1

\* C28: security analyzer: a single matched record raises the sum of
\* sensitive_urls_accessed by at most 1 and appends at most one
\* 'Sensitive Resource Access' event, whatever its URL
C28_SensitiveAccessCountedOnce == [][SensitiveCountedOnce]_vars

SecIPs == {l.ip : l \in SecurityLines}

\* the 401 and 403 responses to a non-private IP among the records read
RefusedOf(ip) ==
    {k \in 1..Len(sec_log) :
        /\ sec_log[k].line.ip = ip
        /\ ~PrivateIp[ip]
        /\ sec_log[k].line.status_code \in {401, 403}}

\* the events of a type recorded for an IP
EventsFor(events, type, ip) ==
    {k \in 1..Len(events) : events[k].event_type = type /\ events[k].ip = ip}

AuthEventsMatchFailures ==
    \A ip \in SecIPs :
        LET n == Cardinality(RefusedOf(ip))
        IN  /\ Get(ip_auth_failures, ip) = n
            /\ Cardinality(EventsFor(security_events, "Authentication Failure", ip))
                  = IF n >= 3 THEN n - 2 ELSE 0
            /\ n < 3 => <<"Block IP", ip, "Multiple auth failures">>
                            \notin sec_metrics.firewall_recommendations

AuthEventAtThirdFailure ==
    /\ \A ip \in SecIPs : Get(ip_auth_failures', ip) >= Get(ip_auth_failures, ip)
    /\ ReadsLine =>
          LET ip     == LineRead.ip
              before == EventsFor(security_events, "Authentication Failure", ip)
              after  == EventsFor(security_events', "Authentication Failure", ip)
          IN  (LineRead.status_code \in {401, 403} /\ ~PrivateIp[ip]) =>
                  /\ Cardinality(after) = Cardinality(before) + 1
                        <=> Get(ip_auth_failures', ip) >= 3
                  /\ Cardinality(after) = Cardinality(before)
                        <=> Get(ip_auth_failures', ip) < 3

\* C29: security analyzer: the 401 or 403 response of a non-private IP
\* appends an 'Authentication Failure' event iff the IP has by then at least
\* 3 such responses in the scan; an IP with n >= 3 failures has n - 2 such
\* events, an IP with fewer than 3 has none and no 'Multiple auth failures'
\* recommendation, and the count of an IP never decreases
C29_AuthFailureFromThird ==
    /\ [](sec_pc = "scan" => AuthEventsMatchFailures)
    /\ [][AuthEventAtThirdFailure]_vars

\* one IP with three refused requests and one event, another with one refused
\* request and no event
C29_Witness ==
    /\ Cardinality(RefusedOf("8.8.8.8")) = 3
    /\ Cardinality(RefusedOf("1.1.1.1")) = 1
    /\ Cardinality(EventsFor(security_events, "Authentication Failure", "8.8.8.8")) = 1
    /\ EventsFor(security_events, "Authentication Failure", "1.1.1.1") = {}
    /\ sec_metrics.firewall_recommendations
          = {<<"Block IP", "8.8.8.8", "Multiple auth failures">>,
             <<"Block IP", "1.1.1.1", "Attack attempts">>}

BurstIPs == {l.ip : l \in SecurityInputs}

\* the timestamp of the k-th record read
TimestampOf(k) == parse_time(sec_log[k].line.time_str, sec_log[k].now).timestamp

\* the indices, in order, of the first k records that are records of ip
RequestsOf(ip, k) ==
    SelectSeq([j \in 1..k |-> j], LAMBDA j : sec_log[j].line.ip = ip)

\* the records of ip whose timestamps are retained once record k is read
RetainedAt(ip, k) == LastN(RequestsOf(ip, k), 100)

\* the retained records of the client of record k whose timestamps pass the
\* test timestamp - t < 60 at record k
RecentAt(k) ==
    LET r == RetainedAt(sec_log[k].line.ip, k)
    IN  {i \in 1..Len(r) : SecondsBetween(TimestampOf(k), TimestampOf(r[i])) < 60}

\* the records of a non-private ip at which more than 60 pass the test
ExcessesOf(ip) ==
    {k \in 1..Len(sec_log) :
        /\ sec_log[k].line.ip = ip
        /\ ~PrivateIp[ip]
        /\ Cardinality(RecentAt(k)) > 60}

RateEventsMatchHistory ==
    \A ip \in BurstIPs :
        LET excesses == ExcessesOf(ip)
            events   == EventsFor(security_events, "Rate Limit Exceeded", ip)
        IN  /\ Cardinality(events) <= 1
            /\ events # {} <=> excesses # {}
            /\ Get(sec_metrics.high_frequency_ips, ip) = Cardinality(excesses)
            /\ <<"Rate limit IP", ip>> \in sec_metrics.firewall_recommendations
                  <=> excesses # {}
            /\ excesses # {} =>
                  LET first == MinOf(excesses)
                      line  == sec_log[first].line
                  IN  \A e \in events :
                        security_events[e] =
                            SecurityEvent("Rate Limit Exceeded",
                                          Cardinality(RecentAt(first)), ip,
                                          SecReq[line.request].url, line)
            /\ ip \in DOMAIN ip_request_times =>
                  /\ Len(ip_request_times[ip]) <= 100
                  /\ ip_request_times[ip] =
                        [i \in 1..Len(RetainedAt(ip, Len(sec_log))) |->
                            TimestampOf(RetainedAt(ip, Len(sec_log))[i])]

RateEventAtFirstExcess ==
    ReadsLine =>
        LET ip     == LineRead.ip
            before == EventsFor(security_events, "Rate Limit Exceeded", ip)
            after  == EventsFor(security_events', "Rate Limit Exceeded", ip)
        IN  /\ before \subseteq after
            /\ after # before <=>
                  /\ ~PrivateIp[ip]
                  /\ Get(sec_metrics.high_frequency_ips, ip) = 0
                  /\ Get(sec_metrics'.high_frequency_ips, ip) = 1

\* C30: security analyzer: for every IP at most one 'Rate Limit Exceeded'
\* event is recorded in a scan, however often the threshold is exceeded
\* afterwards; it is the event of the first record at which more than 60 of
\* the IP's retained timestamps t satisfy timestamp - t < 60 seconds, and
\* after every record the retained list of each IP has at most 100 entries
C30_OneRateLimitEvent ==
    /\ [](sec_pc = "scan" => RateEventsMatchHistory)
    /\ [][RateEventAtFirstExcess]_vars

\* more than 100 requests of one client, the threshold exceeded more than
\* once, one event, 100 timestamps retained
C30_Witness ==
    /\ Len(RequestsOf("8.8.8.8", Len(sec_log))) > 100
    /\ Cardinality(ExcessesOf("8.8.8.8")) > 1
    /\ Cardinality(EventsFor(security_events, "Rate Limit Exceeded", "8.8.8.8")) = 1
    /\ Len(ip_request_times["8.8.8.8"]) = 100
    /\ sec_log[Len(sec_log)].line.time_str = T0s59

====
